---------------------------- MODULE Spec2Model ----------------------------
(***************************************************************************)
(* Model of the transaction enrichment pipeline of insight-api-komodo      *)
(* (src/lib/transactions.js): the identity name resolver with its          *)
(* never-expiring cache, transformTransaction with its two resolution     *)
(* waves and the fields it derives, and the /tx/:txid handler.             *)
(*                                                                         *)
(* Representation of JavaScript values:                                    *)
(*  - a string is a sequence of one-character strings, "" is << >>;        *)
(*  - a field the code only tests for truthiness holds << >> (for a        *)
(*    string) or None (for an object) when it is absent, null or empty:    *)
(*    the code cannot tell these apart;                                    *)
(*  - an object used as a map (valuein, currencyvalues, nameMapping) is a  *)
(*    sequence of <<key, value>> pairs with distinct keys, in insertion    *)
(*    order, which is the order Object.keys enumerates string keys in;     *)
(*  - an optional object is None (<< >>) or Some(r) (<< r >>).             *)
(***************************************************************************)
EXTENDS Integers, Sequences, FiniteSets, TLC

\* ------------------------------------------------------------------ bounds

\* Longest friendly name drawn for the name derivation, in tokens.
MaxTokens == 3
\* Number of getIdentityFriendlyName calls made in one behaviour of SpecResolver.
MaxCalls == 3
\* Number of outputs of a transaction.
MaxOutputs == 2
\* Number of transformTransaction calls made in one behaviour.
MaxTransforms == 2
\* Number of inputs of a transaction.
MaxInputs == 2

\* ----------------------------------------------------------------- strings

EmptyString == << >>
AT == <<"@">>
VRSC == <<".", "V", "R", "S", "C">>
bob == <<"b", "o", "b">>
alice == <<"a", "l", "i", "c", "e">>
iAAA == <<"i", "A", "A", "A">>
iBBB == <<"i", "B", "B", "B">>
iCCC == <<"i", "C", "C", "C">>

\* The value of a missing property where the code can tell it from "".
Undefined == <<"undefined">>

\* JavaScript truthiness of a string-or-undefined value.
Truthy(x) == x # Undefined /\ x # EmptyString

\* String.prototype.endsWith, startsWith and slice(0, -k).
EndsWith(s, suffix) ==
    /\ Len(s) >= Len(suffix)
    /\ SubSeq(s, Len(s) - Len(suffix) + 1, Len(s)) = suffix

StartsWith(s, prefix) ==
    /\ Len(s) >= Len(prefix)
    /\ SubSeq(s, 1, Len(prefix)) = prefix

SliceEnd(s, k) == SubSeq(s, 1, Len(s) - k)

\* Optional objects.
None == << >>
Some(r) == << r >>
Has(o) == o # None
Val(o) == o[1]

\* ------------------------------------------------------------------ numbers

\* The number satoshis / 1e8 (lines 292-296, 342, 353). An amount of minimal
\* units is an integer below 2^53 and the quotient has at most 8 decimals, so
\* the number is held exactly as its whole part and its 8 decimals.
Div1e8(satoshis) ==
    [whole |-> satoshis \div 100000000, frac |-> satoshis % 100000000]

\* A whole number as a JavaScript number.
Whole(n) == [whole |-> n, frac |-> 0]

DigitChar(d) == <<"0", "1", "2", "3", "4", "5", "6", "7", "8", "9">>[d + 1]

\* The decimal digits of a natural number, as Number.prototype.toString
\* writes them.
RECURSIVE Digits(_)
Digits(n) ==
    IF n < 10 THEN <<DigitChar(n)>> ELSE Append(Digits(n \div 10), DigitChar(n % 10))

\* digits, left-padded with "0" to the given width.
RECURSIVE PadStart(_, _)
PadStart(digits, width) ==
    IF Len(digits) >= width THEN digits ELSE PadStart(<<"0">> \o digits, width)

\* Number.prototype.toFixed(8) (lines 353, 453, 454) of a number that has at
\* most 8 decimals.
ToFixed8Unpadded(x) == Digits(x.whole) \o <<".">> \o Digits(x.frac)

ToFixed8(x) == Digits(x.whole) \o <<".">> \o PadStart(Digits(x.frac), 8)

\* ------------------------------------------------- identity name resolver

Controllers == {1, 2}
Addresses == {iAAA, iBBB, iCCC}

\* What getIdentity hands to its callback: err, or an identity whose
\* identityinfo.friendlyname and identity.name are strings ("" when the
\* field, or the object carrying it, is missing).
IdentityResponse(err, friendlyname, name) ==
    [err |-> err, friendlyname |-> friendlyname, name |-> name]

LookupError == IdentityResponse(TRUE, EmptyString, EmptyString)

\* Lines 46-62: the name derived from a successful lookup.
FriendlyNameSwapped(iAddress, identity) ==
    IF identity.friendlyname # EmptyString
    THEN LET f1 == IF EndsWith(identity.friendlyname, VRSC)
                   THEN SliceEnd(identity.friendlyname, 5)
                   ELSE identity.friendlyname
             f2 == IF EndsWith(f1, AT) THEN SliceEnd(f1, 1) ELSE f1
         IN f2
    ELSE IF identity.name # EmptyString THEN identity.name ELSE iAddress

FriendlyNameStripsFallback(iAddress, identity) ==
    LET raw == IF identity.friendlyname # EmptyString
               THEN identity.friendlyname
               ELSE IF identity.name # EmptyString THEN identity.name ELSE iAddress
        f1 == IF EndsWith(raw, AT) THEN SliceEnd(raw, 1) ELSE raw
    IN IF EndsWith(f1, VRSC) THEN SliceEnd(f1, 5) ELSE f1

FriendlyNameOf(iAddress, identity) ==
    IF identity.friendlyname # EmptyString
    THEN LET f1 == IF EndsWith(identity.friendlyname, AT)
                   THEN SliceEnd(identity.friendlyname, 1)
                   ELSE identity.friendlyname
             f2 == IF EndsWith(f1, VRSC) THEN SliceEnd(f1, 5) ELSE f1
         IN f2
    ELSE IF identity.name # EmptyString THEN identity.name ELSE iAddress

\* Line 35: the cache test is a truthiness test of the entry.
CacheHit(cache, iAddress) == Truthy(cache[iAddress])

\* Lines 41-67: the name handed to the caller when getIdentity responds.
NameOnResponse(iAddress, response) ==
    IF response.err THEN iAddress ELSE FriendlyNameOf(iAddress, response)

\* Lines 41-44 and 65: the cache after getIdentity has responded.
CacheOnResponseForgets(cache, iAddress, response) == cache

CacheOnResponseCachesFailure(cache, iAddress, response) ==
    [cache EXCEPT ![iAddress] = NameOnResponse(iAddress, response)]

CacheOnResponseEvicts(cache, iAddress, response) ==
    IF response.err
    THEN [cache EXCEPT ![iAddress] = Undefined]
    ELSE [cache EXCEPT ![iAddress] = FriendlyNameOf(iAddress, response)]

CacheOnResponseSkipsFallback(cache, iAddress, response) ==
    IF response.err \/ FriendlyNameOf(iAddress, response) = iAddress
    THEN cache
    ELSE [cache EXCEPT ![iAddress] = FriendlyNameOf(iAddress, response)]

CacheOnResponseKeepsFirst(cache, iAddress, response) ==
    IF response.err \/ cache[iAddress] # Undefined
    THEN cache
    ELSE [cache EXCEPT ![iAddress] = FriendlyNameOf(iAddress, response)]

CacheOnResponse(cache, iAddress, response) ==
    IF response.err
    THEN cache
    ELSE [cache EXCEPT ![iAddress] = FriendlyNameOf(iAddress, response)]

\* Lines 43 and 67: the first argument of the resolver's callback.
ErrorOnResponse(response) == "null"

\* ------------------------------------------------------------------- maps

\* Object.keys(map), map[key] (Undefined when the key is missing) and the
\* assignment map[key] = value, which keeps the place of a key already there.
Keys(map) == [i \in 1..Len(map) |-> map[i][1]]

HasKey(map, key) == \E i \in 1..Len(map) : map[i][1] = key

Get(map, key) ==
    IF HasKey(map, key)
    THEN (CHOOSE p \in {map[i] : i \in 1..Len(map)} : p[1] = key)[2]
    ELSE Undefined

Put(map, key, value) ==
    IF HasKey(map, key)
    THEN [i \in 1..Len(map) |-> IF map[i][1] = key THEN <<key, value>> ELSE map[i]]
    ELSE Append(map, <<key, value>>)

\* Array.prototype.indexOf(x) !== -1.
Contains(list, x) == \E i \in 1..Len(list) : list[i] = x

\* The one element of a singleton: Only({F(v) : v \in {e}}) is F(e) with e
\* evaluated once.
Only(S) == CHOOSE r \in S : TRUE

\* ------------------------------------------------------ protocol addresses

FeePoolAddress ==
    <<"R", "Q", "5", "5", "d", "L", "Q", "7", "u", "G", "n", "L", "x", "8", "s", "c", "X", "f", "k", "a", "F", "V", "6", "Q", "S", "6", "q", "V", "B", "G", "y", "x", "A", "G">>

NotarizationAddress ==
    <<"R", "D", "T", "q", "9", "q", "n", "1", "L", "t", "h", "v", "7", "f", "v", "s", "d", "b", "W", "z", "3", "6", "m", "G", "p", "8", "H", "K", "9", "X", "a", "r", "u", "Z">>

plainAddress == <<"R", "A", "d", "d", "r">>
otherProtocolAddress == <<"R", "P", "r", "o", "t", "o">>

\* Lines 13-21: the keys of the registry loaded from protocol-addresses.json.
PROTOCOL_ADDRESSES_DATA ==
    {FeePoolAddress, NotarizationAddress, otherProtocolAddress}

\* The display metadata the registry holds for one of its keys.
ProtocolEntry(address) ==
    [name |-> <<"n", ":">> \o address, description |-> <<"d", ":">> \o address,
     color |-> <<"c", ":">> \o address, icon |-> <<"i", ":">> \o address]

\* ------------------------------------------------- transformInput / Output

\* The raw records the node supplies.
RawInput(prevTxId, outputIndex, script, sequence) ==
    [prevTxId |-> prevTxId, outputIndex |-> outputIndex, script |-> script,
     sequence |-> sequence, scriptAsm |-> "3045 02", address |-> <<"R", "I", "n">>,
     addresses |-> None, satoshis |-> 150000000]

RawOutput(address, addresses, script, scriptAsm, crosschainimport) ==
    [address |-> address, addresses |-> addresses, script |-> script,
     scriptAsm |-> scriptAsm, crosschainimport |-> crosschainimport,
     satoshis |-> 123456789, spentTxId |-> "", spentIndex |-> None,
     spentHeight |-> None]

\* Lines 121-127: the synthetic input of a coinbase transaction.
\* The fields transformInput sets are absent from it: scriptSig, addr and
\* valueSat are None, txid "" and vout -1.
CoinbaseInputKeepsAll(inputs) ==
    [i \in 1..Len(inputs) |->
        [coinbase |-> inputs[i].script, txid |-> "", vout |-> -1,
         sequence |-> inputs[i].sequence, n |-> i - 1,
         scriptSig |-> None, addr |-> None, valueSat |-> None, value |-> None]]

CoinbaseInput(inputs) ==
    << [coinbase |-> inputs[1].script, txid |-> "", vout |-> -1,
        sequence |-> inputs[1].sequence, n |-> 0,
        scriptSig |-> None, addr |-> None, valueSat |-> None, value |-> None] >>

\* Array.prototype.join(',').
RECURSIVE Join(_)
Join(list) ==
    IF list = << >> THEN EmptyString
    ELSE IF Len(list) = 1 THEN list[1]
    ELSE list[1] \o <<",">> \o Join(Tail(list))

\* Lines 322-349: index is the 0-based position Array.prototype.map passes.
\* addr is None where the code sets null.
transformInputKeepsScriptSig(options, input, index) ==
    [coinbase |-> "", txid |-> input.prevTxId, vout |-> input.outputIndex,
     sequence |-> input.sequence, n |-> index,
     scriptSig |-> Some([hex |-> input.script,
                         asm |-> IF ~options.noAsm
                                 THEN Some(input.scriptAsm) ELSE None]),
     addr |-> IF input.address # EmptyString THEN Some(input.address)
              ELSE IF Has(input.addresses) THEN Some(Join(Val(input.addresses)))
              ELSE None,
     valueSat |-> Some(input.satoshis),
     value |-> Some(Div1e8(input.satoshis))]

transformInput(options, input, index) ==
    [coinbase |-> "", txid |-> input.prevTxId, vout |-> input.outputIndex,
     sequence |-> input.sequence, n |-> index,
     scriptSig |-> IF ~options.noScriptSig
                   THEN Some([hex |-> input.script,
                              asm |-> IF ~options.noAsm
                                      THEN Some(input.scriptAsm) ELSE None])
                   ELSE None,
     addr |-> IF input.address # EmptyString THEN Some(input.address)
              ELSE IF Has(input.addresses) THEN Some(Join(Val(input.addresses)))
              ELSE None,
     valueSat |-> Some(input.satoshis),
     value |-> Some(Div1e8(input.satoshis))]

\* Line 385: output.address || (output.addresses && output.addresses[0]),
\* "" when neither is there.
OutputAddress(output) ==
    IF output.address # EmptyString THEN output.address
    ELSE IF Has(output.addresses) /\ Val(output.addresses) # << >>
         THEN Val(output.addresses)[1]
         ELSE EmptyString

\* Line 386: the output's address is a key of the registry.
IsProtocolAddress(output) ==
    /\ OutputAddress(output) # EmptyString
    /\ OutputAddress(output) \in PROTOCOL_ADDRESSES_DATA

\* Lines 378-382 and 395-406: the declared decode type, "" when the output
\* is not flagged. A later assignment overwrites an earlier one.
ScriptDecodeTypeByAddress(output) ==
    IF OutputAddress(output) = NotarizationAddress /\ output.script # ""
    THEN "acceptednotarization"
    ELSE IF OutputAddress(output) = FeePoolAddress /\ output.script # ""
    THEN "feepool"
    ELSE IF OutputAddress(output) = EmptyString /\ output.script # ""
    THEN "opreturn" ELSE ""

ScriptDecodeType(output) ==
    LET opReturn == /\ output.scriptAsm # << >>
                    /\ output.scriptAsm[1] = "OP_RETURN"
                    /\ output.script # ""
                    /\ output.address = EmptyString
        feePool == /\ IsProtocolAddress(output)
                   /\ OutputAddress(output) = FeePoolAddress
                   /\ output.script # ""
        notarization == /\ IsProtocolAddress(output)
                        /\ OutputAddress(output) = NotarizationAddress
                        /\ output.script # ""
    IN IF notarization THEN "acceptednotarization"
       ELSE IF feePool THEN "feepool"
       ELSE IF opReturn THEN "opreturn" ELSE ""

\* Lines 386-392: the registry's annotations, None for any other address.
ProtocolAnnotationWhenDecoded(output) ==
    IF IsProtocolAddress(output) /\ ScriptDecodeType(output) # ""
    THEN Some([protocolName |-> ProtocolEntry(OutputAddress(output)).name,
               protocolDescription |-> ProtocolEntry(OutputAddress(output)).description,
               protocolColor |-> ProtocolEntry(OutputAddress(output)).color,
               protocolIcon |-> ProtocolEntry(OutputAddress(output)).icon,
               originalProtocolAddress |-> OutputAddress(output)])
    ELSE None

ProtocolAnnotation(output) ==
    IF IsProtocolAddress(output)
    THEN Some([protocolName |-> ProtocolEntry(OutputAddress(output)).name,
               protocolDescription |-> ProtocolEntry(OutputAddress(output)).description,
               protocolColor |-> ProtocolEntry(OutputAddress(output)).color,
               protocolIcon |-> ProtocolEntry(OutputAddress(output)).icon,
               originalProtocolAddress |-> OutputAddress(output)])
    ELSE None

\* Lines 437-441: spentTxId || null, spentIndex (null when undefined) and
\* spentHeight || null; null is None, and "" for spentTxId.
SpentFields(output) ==
    [spentTxId |-> output.spentTxId,
     spentIndex |-> output.spentIndex,
     spentHeight |-> IF Has(output.spentHeight) /\ Val(output.spentHeight) # 0
                     THEN output.spentHeight ELSE None]

\* Lines 351-449, without the payload fields that are copied as they are
\* (identityprimary, currencydefinition, reservetransfer, ...) and without
\* scriptPubKey.type. The fields of the decode (feepool,
\* acceptednotarization, p2shAddress, isP2SH) are not set here; they start
\* absent.
transformOutput(options, output, index) ==
    [value |-> ToFixed8(Div1e8(output.satoshis)),
     n |-> index,
     scriptPubKey |->
        [hex |-> output.script,
         asm |-> IF ~options.noAsm THEN Some(output.scriptAsm) ELSE None,
         addresses |-> IF output.address # EmptyString
                       THEN Some(<<output.address>>) ELSE None],
     addresses |-> output.addresses,
     needsScriptDecode |-> ScriptDecodeType(output) # "",
     scriptHex |-> IF ScriptDecodeType(output) # "" THEN output.script ELSE "",
     scriptDecodeType |-> ScriptDecodeType(output),
     isProtocolAddress |-> IsProtocolAddress(output),
     protocol |-> ProtocolAnnotation(output),
     crosschainimport |-> output.crosschainimport,
     spent |-> IF ~options.noSpent THEN Some(SpentFields(output)) ELSE None,
     feepool |-> None,
     acceptednotarization |-> None,
     p2shAddress |-> "",
     isP2SH |-> FALSE]

\* ---------------------------------------------------- enrichment, scan pass

\* Lines 142-146 and 193-197: push every key that starts with "i" and is
\* not in the list yet.
RECURSIVE PushNewNoDedupe(_, _)
PushNewNoDedupe(list, keys) ==
    IF keys = << >>
    THEN list
    ELSE PushNewNoDedupe(IF StartsWith(Head(keys), <<"i">>)
                         THEN Append(list, Head(keys)) ELSE list,
                         Tail(keys))

RECURSIVE PushNew(_, _)
PushNew(list, keys) ==
    IF keys = << >>
    THEN list
    ELSE LET k == Head(keys)
         IN PushNew(IF StartsWith(k, <<"i">>) /\ ~Contains(list, k)
                    THEN Append(list, k) ELSE list,
                    Tail(keys))

\* Lines 140-147: the identity addresses of every crosschainimport.valuein.
RECURSIVE ScanAddresses(_, _)
ScanAddresses(vout, list) ==
    IF vout = << >>
    THEN list
    ELSE LET v == Head(vout)
         IN ScanAddresses(Tail(vout),
                IF Has(v.crosschainimport) /\ Has(Val(v.crosschainimport).valuein)
                THEN PushNew(list, Keys(Val(Val(v.crosschainimport).valuein)))
                ELSE list)

\* Lines 148-150: the 0-based indices of the outputs flagged for decode.
ScanScripts(vout) ==
    LET flagged == SelectSeq([i \in 1..Len(vout) |-> i],
                             LAMBDA i : vout[i].needsScriptDecode)
    IN [j \in 1..Len(flagged) |-> flagged[j] - 1]

\* Lines 177-181 and 221-224: getIdentityFriendlyName for each address in
\* turn. A cache hit calls back before the next address is looked at; a
\* miss leaves the slot pending (None) with a getIdentity call in flight.
StartResolutions(cache, addresses) ==
    [i \in 1..Len(addresses) |->
        IF CacheHit(cache, addresses[i])
        THEN Some([iAddress |-> addresses[i], friendlyName |-> cache[addresses[i]]])
        ELSE None]

Pending(results) == \E i \in 1..Len(results) : results[i] = None

\* ------------------------------------------------------ script decoding

\* What decodeScript hands to its callback: err, and decoded.result with
\* its feepool, acceptednotarization and p2sh members (None, "" when absent).
DecodeResponse(err, result) == [err |-> err, result |-> result]

DecodedResult(feepool, acceptednotarization, p2sh) ==
    [feepool |-> feepool, acceptednotarization |-> acceptednotarization,
     p2sh |-> p2sh]

FeePool(currencyvalues) ==
    [currencyvalues |-> currencyvalues, currencyvaluesFriendly |-> None]

AcceptedNotarization(currencyid) ==
    [currencyid |-> currencyid, currencyNameFriendly |-> EmptyString]

\* Lines 164-168: the decoded payload kept for an output.
DecodedPayloadIgnoresError(response) == response.result

DecodedPayload(response) ==
    IF response.err THEN None ELSE response.result

\* Lines 166 and 168: the item async.map collects for the j-th flagged output.
DecodeItem(vout, voutIdx, response) ==
    [idx |-> voutIdx, decoded |-> DecodedPayload(response),
     type |-> vout[voutIdx + 1].scriptDecodeType]

\* ------------------------------------------- enrichment, post-decode pass

\* Lines 187-215 for one item: the output with its decoded payload attached.
ExpandOutputAttachesAll(v, item) ==
    LET d == IF Has(item.decoded) THEN Val(item.decoded)
             ELSE DecodedResult(None, None, "")
        feePool == Has(d.feepool) /\ Has(Val(d.feepool).currencyvalues)
        notarization == Has(d.acceptednotarization)
        p2sh == d.p2sh # ""
    IN [v EXCEPT
          !.feepool = IF feePool THEN d.feepool ELSE @,
          !.acceptednotarization = IF notarization THEN d.acceptednotarization ELSE @,
          !.p2shAddress = IF p2sh THEN d.p2sh ELSE @,
          !.isP2SH = IF p2sh THEN TRUE ELSE @]

ExpandOutput(v, item) ==
    LET d == IF Has(item.decoded) THEN Val(item.decoded)
             ELSE DecodedResult(None, None, "")
        feePool == item.type = "feepool" /\ Has(d.feepool)
                   /\ Has(Val(d.feepool).currencyvalues)
        notarization == item.type = "acceptednotarization"
                        /\ Has(d.acceptednotarization)
        p2sh == item.type = "opreturn" /\ d.p2sh # ""
    IN [v EXCEPT
          !.feepool = IF feePool THEN d.feepool ELSE @,
          !.acceptednotarization = IF notarization THEN d.acceptednotarization ELSE @,
          !.p2shAddress = IF p2sh THEN d.p2sh ELSE @,
          !.isP2SH = IF p2sh THEN TRUE ELSE @]

\* Lines 193-197 and 204-208 for one item: the addresses it adds.
ExpandAddresses(list, v) ==
    LET afterFeePool ==
            IF Has(v.feepool)
            THEN PushNew(list, Keys(Val(Val(v.feepool).currencyvalues)))
            ELSE list
    IN IF Has(v.acceptednotarization)
       THEN PushNew(afterFeePool, << Val(v.acceptednotarization).currencyid >>)
       ELSE afterFeePool

\* Lines 186-216: every item in turn. Each output is flagged at most once,
\* so an output is expanded by its own item alone.
RECURSIVE PostDecode(_, _, _)
PostDecode(vout, list, items) ==
    IF items = << >>
    THEN [vout |-> vout, iAddressesToResolve |-> list]
    ELSE LET item == Val(Head(items))
             v == ExpandOutput(vout[item.idx + 1], item)
         IN PostDecode([vout EXCEPT ![item.idx + 1] = v],
                       ExpandAddresses(list, v), Tail(items))

\* Line 220: the addresses found after the first wave.
NewAddressesNone(list, namesResolved) == << >>

NewAddresses(list, namesResolved) ==
    SubSeq(list, Len(namesResolved) + 1, Len(list))

\* ------------------------------------------------ enrichment, merge pass

\* Lines 238-241.
RECURSIVE NameMapping(_, _)
NameMapping(mapping, namesResolved) ==
    IF namesResolved = << >>
    THEN mapping
    ELSE LET r == Val(Head(namesResolved))
         IN NameMapping(Put(mapping, r.iAddress, r.friendlyName),
                        Tail(namesResolved))

\* Lines 248 and 257: nameMapping[iAddress] || iAddress.
NameOrAddressUnresolved(nameMapping, iAddress) == iAddress

NameOrAddress(nameMapping, iAddress) ==
    IF Truthy(Get(nameMapping, iAddress))
    THEN Get(nameMapping, iAddress)
    ELSE iAddress

\* Lines 246-250 and 255-259: the friendly-keyed copy of a map.
RECURSIVE Friendly(_, _, _)
Friendly(nameMapping, friendly, map) ==
    IF map = << >>
    THEN friendly
    ELSE Friendly(nameMapping,
                  Put(friendly, NameOrAddress(nameMapping, Head(map)[1]), Head(map)[2]),
                  Tail(map))

\* Lines 244-267 for one output.
ApplyNames(nameMapping, v) ==
    [v EXCEPT
       !.crosschainimport =
          IF Has(@) /\ Has(Val(@).valuein)
          THEN Some([Val(@) EXCEPT !.valueinFriendly =
                        Some(Friendly(nameMapping, << >>, Val(Val(v.crosschainimport).valuein)))])
          ELSE @,
       !.feepool =
          IF Has(@) /\ Has(Val(@).currencyvalues)
          THEN Some([Val(@) EXCEPT !.currencyvaluesFriendly =
                        Some(Friendly(nameMapping, << >>, Val(Val(v.feepool).currencyvalues)))])
          ELSE @,
       !.acceptednotarization =
          IF Has(@) /\ Val(@).currencyid # EmptyString
          THEN Some([Val(@) EXCEPT !.currencyNameFriendly =
                        NameOrAddress(nameMapping, Val(v.acceptednotarization).currencyid)])
          ELSE @]

\* ------------------------------------------------------ transformTransaction

\* blockTimestamp is 0 when the transaction is in no block; hexLength is
\* transaction.hex.length.
RawTransaction(hash, coinbase, inputs, outputs, height) ==
    [hash |-> hash, version |-> 1, locktime |-> 0, coinbase |-> coinbase,
     inputs |-> inputs, outputs |-> outputs, height |-> height,
     blockHash |-> "blockhash", fOverwintered |-> FALSE,
     blockTimestamp |-> IF height >= 0 THEN 1600000000 ELSE 0,
     outputSatoshis |-> 100000000, inputSatoshis |-> 150000000,
     feeSatoshis |-> 50000000, hexLength |-> 450, joinSplits |-> << >>,
     nVersionGroupId |-> "892f2085", nExpiryHeight |-> 120,
     valueBalance |-> 0, spendDescs |-> <<"spend">>,
     outputDescs |-> <<"output">>, bindingSig |-> "sig"]

NoTransaction == RawTransaction("", FALSE, << >>, << >>, -1)

\* A transformTransaction call: its arguments (tx is the transaction object,
\* raw its value when the call was made), its local variables, what it
\* has handed to its callback (callbacks), and a record of what happened:
\* the getIdentityFriendlyName calls it made (resolverCalls) and what
\* getIdentity and decodeScript answered it (idAnswers by address,
\* decodeAnswers by output index).
NoOptions == [noScriptSig |-> FALSE, noAsm |-> FALSE, noSpent |-> FALSE]

\* The second argument of transformTransaction: an options object with its
\* three properties, or a function, which has none of them.
OptionsArgument(noScriptSig, noAsm, noSpent) ==
    [isFunction |-> FALSE, noScriptSig |-> noScriptSig, noAsm |-> noAsm,
     noSpent |-> noSpent]

FunctionArgument ==
    [isFunction |-> TRUE, noScriptSig |-> FALSE, noAsm |-> FALSE, noSpent |-> FALSE]

\* Lines 103-106: the options in force.
OptionsOf(options) ==
    IF options.isFunction
    THEN NoOptions
    ELSE [noScriptSig |-> options.noScriptSig, noAsm |-> options.noAsm,
          noSpent |-> options.noSpent]

\* Lines 103-107: _.isFunction(callback) as checkArgument sees it; callback
\* is whether the third argument is a function.
CallbackIsFunctionUnchecked(options, callback) == TRUE

CallbackIsFunction(options, callback) ==
    IF options.isFunction THEN TRUE ELSE callback

\* The two-argument call transformTransaction(transaction, callback).
TwoArguments == [options |-> FunctionArgument, callback |-> FALSE]

IdleTransform ==
    [pc |-> "idle", ctl |-> 1, tx |-> NoTransaction, raw |-> NoTransaction,
     args |-> TwoArguments, options |-> NoOptions, nodeHeight |-> 0,
     confirmations |-> 0,
     transformed |-> [txid |-> "", version |-> 0, locktime |-> 0,
                      vin |-> << >>, vout |-> << >>, scalars |-> None],
     iAddressesToResolve |-> << >>, scriptsToDecodeIndices |-> << >>,
     scriptsDecoded |-> << >>, namesResolved |-> << >>,
     newAddresses |-> << >>, newResults |-> << >>, nameMapping |-> << >>,
     resolverCalls |-> << >>, callbacks |-> << >>,
     idAnswers |-> << >>, decodeAnswers |-> << >>]

\* Line 318: the error argument of the final callback.
CallbackErrorFromDecodes(x) ==
    IF \E j \in 1..Len(x.scriptsDecoded) : ~Has(Val(x.scriptsDecoded[j]).decoded)
    THEN "error" ELSE "null"

CallbackError(x) == "null"

\* Line 282: Math.round(Date.now() / 1000), the clock held at one reading.
Now == 1700000000

\* Lines 451-458.
transformJoinSplit(options, jsdesc, index) ==
    [vpub_old |-> ToFixed8(Div1e8(jsdesc.oldZatoshis)),
     vpub_new |-> ToFixed8(Div1e8(jsdesc.newZatoshis)),
     n |-> index]

\* Line 274: the join-splits are transformed.
HasJoinSplitsAlways(transformed) == TRUE

HasJoinSplits(transformed) == transformed.version >= 2

\* Lines 284-286: blocktime, None when confirmations is 0.
BlockTimeAlways(confirmations, time) == Some(time)

BlockTime(confirmations, time) ==
    IF confirmations # 0 THEN Some(time) ELSE None

\* Lines 273-319. A field the code leaves out is None.
continueTransform(x) ==
    LET time == IF x.tx.blockTimestamp # 0 THEN x.tx.blockTimestamp ELSE Now
        sapling == x.tx.fOverwintered /\ x.tx.version >= 4
    IN [x EXCEPT
          !.pc = "done",
          !.transformed.scalars =
             Some([vjoinsplit |->
                      IF HasJoinSplits(x.transformed)
                      THEN Some([i \in 1..Len(x.tx.joinSplits) |->
                                   transformJoinSplit(x.options, x.tx.joinSplits[i], i - 1)])
                      ELSE None,
                   blockhash |-> x.tx.blockHash, blockheight |-> x.tx.height,
                   confirmations |-> x.confirmations,
                   time |-> time,
                   blocktime |-> BlockTime(x.confirmations, time),
                   isCoinBase |-> x.tx.coinbase,
                   valueOut |-> Div1e8(x.tx.outputSatoshis),
                   size |-> x.tx.hexLength \div 2,
                   valueIn |-> IF ~x.tx.coinbase
                               THEN Some(Div1e8(x.tx.inputSatoshis)) ELSE None,
                   fees |-> IF ~x.tx.coinbase
                            THEN Some(Div1e8(x.tx.feeSatoshis)) ELSE None,
                   fOverwintered |-> x.tx.fOverwintered,
                   nVersionGroupId |-> IF x.tx.fOverwintered
                                       THEN Some(x.tx.nVersionGroupId) ELSE None,
                   nExpiryHeight |-> IF x.tx.fOverwintered
                                     THEN Some(x.tx.nExpiryHeight) ELSE None,
                   valueBalance |-> IF sapling THEN Some(x.tx.valueBalance) ELSE None,
                   spendDescs |-> IF sapling THEN Some(x.tx.spendDescs) ELSE None,
                   outputDescs |-> IF sapling THEN Some(x.tx.outputDescs) ELSE None,
                   bindingSig |-> IF sapling /\ x.tx.bindingSig # ""
                                  THEN Some(x.tx.bindingSig) ELSE None]),
          !.callbacks = Append(@, CallbackError(x))]

\* Lines 236-270. transformed.vout[i].crosschainimport is the very object
\* of the raw output (line 410), so valueinFriendly lands on both.
applyNamesAndContinue(x) ==
    LET nameMapping == NameMapping(<< >>, x.namesResolved)
        vout == [i \in 1..Len(x.transformed.vout) |->
                    ApplyNames(nameMapping, x.transformed.vout[i])]
    IN Only({continueTransform(merged) : merged \in {
         [x EXCEPT
            !.nameMapping = nameMapping,
            !.transformed.vout = vout,
            !.tx.outputs = [i \in 1..Len(@) |->
                [@[i] EXCEPT !.crosschainimport = vout[i].crosschainimport]]]}})

\* Lines 225-228: the second wave has completed.
AfterWave2Stalls(x) == x

AfterWave2(x) ==
    Only({applyNamesAndContinue(joined) :
            joined \in {[x EXCEPT !.namesResolved = @ \o x.newResults]}})

ResolverCalls(wave, addresses, results) ==
    [i \in 1..Len(addresses) |->
        [wave |-> wave, iAddress |-> addresses[i], issued |-> results[i] = None]]

\* Lines 183-234: both tasks of the first wave have completed.
AfterWave1AppliesNamesEarly(x, cache) ==
    LET expanded == IF Len(x.scriptsDecoded) > 0
                    THEN PostDecode(x.transformed.vout, x.iAddressesToResolve,
                                    x.scriptsDecoded)
                    ELSE [vout |-> x.transformed.vout,
                          iAddressesToResolve |-> x.iAddressesToResolve]
        early == NameMapping(<< >>, x.namesResolved)
        x1 == [x EXCEPT !.transformed.vout =
                            [i \in 1..Len(expanded.vout) |->
                                ApplyNames(early, expanded.vout[i])],
                        !.iAddressesToResolve = expanded.iAddressesToResolve]
        newAddresses == NewAddresses(x1.iAddressesToResolve, x1.namesResolved)
        newResults == StartResolutions(cache, newAddresses)
    IN IF Len(x.scriptsDecoded) > 0
          /\ Len(x1.iAddressesToResolve) > Len(x1.namesResolved)
       THEN LET x2 == [x1 EXCEPT
                         !.pc = "wave2",
                         !.newAddresses = newAddresses,
                         !.newResults = newResults,
                         !.resolverCalls = @ \o ResolverCalls(2, newAddresses, newResults)]
            IN IF Pending(newResults) THEN x2 ELSE AfterWave2(x2)
       ELSE applyNamesAndContinue(x1)

AfterWave1(x, cache) ==
    LET expanded == IF Len(x.scriptsDecoded) > 0
                    THEN PostDecode(x.transformed.vout, x.iAddressesToResolve,
                                    x.scriptsDecoded)
                    ELSE [vout |-> x.transformed.vout,
                          iAddressesToResolve |-> x.iAddressesToResolve]
        Wave2(x1) ==
            LET newAddresses == NewAddresses(x1.iAddressesToResolve, x1.namesResolved)
                newResults == StartResolutions(cache, newAddresses)
            IN [x1 EXCEPT
                  !.pc = "wave2",
                  !.newAddresses = newAddresses,
                  !.newResults = newResults,
                  !.resolverCalls = @ \o ResolverCalls(2, newAddresses, newResults)]
        Continue(x1) ==
            IF Len(x1.scriptsDecoded) > 0
               /\ Len(x1.iAddressesToResolve) > Len(x1.namesResolved)
            THEN Only({IF Pending(x2.newResults) THEN x2 ELSE AfterWave2(x2) :
                         x2 \in {Wave2(x1)}})
            ELSE applyNamesAndContinue(x1)
    IN Only({Continue(x1) : x1 \in {
                [x EXCEPT !.transformed.vout = expanded.vout,
                          !.iAddressesToResolve = expanded.iAddressesToResolve]}})

Wave1Complete(x) == ~Pending(x.scriptsDecoded) /\ ~Pending(x.namesResolved)

\* Lines 102-182: the synchronous part of transformTransaction.
StartTransform(c, transaction, options, height, cache) ==
    LET vin == IF transaction.coinbase
               THEN CoinbaseInput(transaction.inputs)
               ELSE [i \in 1..Len(transaction.inputs) |->
                        transformInput(options, transaction.inputs[i], i - 1)]
        vout == [i \in 1..Len(transaction.outputs) |->
                    transformOutput(options, transaction.outputs[i], i - 1)]
        list == ScanAddresses(vout, << >>)
        indices == ScanScripts(vout)
        names == StartResolutions(cache, list)
    IN [IdleTransform EXCEPT
          !.pc = "wave1",
          !.ctl = c,
          !.tx = transaction,
          !.raw = transaction,
          !.options = options,
          !.nodeHeight = height,
          !.confirmations = IF transaction.height >= 0
                            THEN height - transaction.height + 1 ELSE 0,
          !.transformed = [txid |-> transaction.hash,
                           version |-> transaction.version,
                           locktime |-> transaction.locktime,
                           vin |-> vin, vout |-> vout, scalars |-> None],
          !.iAddressesToResolve = list,
          !.scriptsToDecodeIndices = indices,
          !.scriptsDecoded = [j \in 1..Len(indices) |-> None],
          !.namesResolved = names,
          !.resolverCalls = ResolverCalls(1, list, names)]

\* ------------------------------------------------------------------ state

VARIABLES
    identityNameCache,  \* per TxController: address -> cached name, or Undefined
    calls,              \* direct getIdentityFriendlyName calls awaiting getIdentity
    last,               \* the most recently completed direct resolution
    prevOutcome,        \* per address: how its most recently completed resolution ended
    nCalls,             \* direct resolutions started so far
    xf,                 \* the transformTransaction call of each slot
    nTransforms,        \* transformTransaction calls started so far
    req,                \* the /tx/:txid request the handler is serving
    addressRequest,     \* the address request being served, or the last one served
    nodeQueries,        \* the address queries the node has been asked
    nRequests,          \* address requests received so far
    inv,                \* InsightAPI subscriptions.inv
    emitted,            \* the emit calls of the latest block or tx event, in order
    invCalls,           \* per emitter, the latest of subscribe and unsubscribe called with it
    listing,            \* the GET /txs?block= request being served
    currencyCache,      \* GetCurrencyController currencyCache
    clock,              \* Date.now()
    fetches,            \* getCurrency calls awaiting the node
    currencyAnswer      \* how the latest currency request was answered

resolverVars == <<calls, last, prevOutcome, nCalls>>
transformVars == <<xf, nTransforms>>
handlerVars == <<req>>
addressVars == <<addressRequest, nodeQueries, nRequests>>
subscriptionVars == <<inv, emitted, invCalls>>
listVars == <<listing>>
currencyVars == <<currencyCache, clock, fetches, currencyAnswer>>
routeVars == <<addressVars, subscriptionVars, listVars, currencyVars>>
coreVars == <<identityNameCache, resolverVars, transformVars, handlerVars>>
vars == <<identityNameCache, resolverVars, transformVars, handlerVars, routeVars>>

Slots == {1, 2}

Callers == {1, 2}

\* Line 27: the cache of a freshly constructed TxController.
EmptyCache == [a \in Addresses |-> Undefined]

NoOutcome ==
    [done |-> FALSE, lookupErr |-> FALSE, name |-> EmptyString,
     cacheAfter |-> Undefined]

NoResolution ==
    [done |-> FALSE, iAddress |-> EmptyString, issued |-> FALSE,
     identity |-> LookupError, err |-> "null", name |-> EmptyString,
     prev |-> NoOutcome, cacheBefore |-> Undefined]

\* What getDetailedTransaction hands to its callback: err (None, or an
\* error with its code) and the transaction.
DetailedTransactionResponse(err, transaction) ==
    [err |-> err, transaction |-> transaction]

\* No request in progress. handleErrors lists the errors handed to
\* common.handleErrors at lines 86 and 88, None standing for null.
IdleRequest ==
    [pc |-> "idle",
     response |-> DetailedTransactionResponse(None, NoTransaction),
     handleErrors |-> << >>]

\* No address request has arrived.
NoAddressRequest ==
    [pc |-> "idle", route |-> "", addresses |-> << >>, status |-> 0, answer |-> ""]

\* index.js lines 40-42: the emitters subscribe and unsubscribe are called
\* with, none of them yet.
Emitters == {"emitter1", "emitter2", "emitter3"}

NoCalls == [latest |-> [e \in Emitters |-> "none"], threw |-> FALSE]

\* The err argument null of a callback; an error names the call it came
\* from and carries its code.
NoError == [from |-> "", code |-> 0]

\* No GET /txs?block= request has arrived. block holds the txids of the
\* block, txids those of the page, fetched the txids getDetailedTransaction
\* has been called with, transformed the results mapSeries has collected.
NoListing ==
    [pc |-> "idle", page |-> 0, block |-> << >>, pagesTotal |-> 1, txids |-> << >>,
     fetched |-> << >>, transformed |-> << >>, answer |-> "", err |-> NoError]

\* transactions.js lines 641-659, async.mapSeries: the iteratee has called
\* next(err, result) for the txid in turn. An error ends the series and goes
\* to the final callback; otherwise the result is kept and the iteratee runs
\* for the next txid, or the final callback answers with the list.
mapSeriesNextFetchesOn(l, err, result) ==
    LET transformed == Append(l.transformed, result)
    IN IF Len(transformed) < Len(l.txids)
       THEN [l EXCEPT !.pc = "fetching", !.transformed = transformed,
                      !.fetched = Append(@, l.txids[Len(transformed) + 1])]
       ELSE [l EXCEPT !.pc = "answered", !.answer = "list",
                      !.transformed = transformed]

mapSeriesNext(l, err, result) ==
    IF err # NoError
    THEN [l EXCEPT !.pc = "answered", !.answer = "handleErrors", !.err = err]
    ELSE LET transformed == Append(l.transformed, result)
         IN IF Len(transformed) < Len(l.txids)
            THEN [l EXCEPT !.pc = "fetching", !.transformed = transformed,
                           !.fetched = Append(@, l.txids[Len(transformed) + 1])]
            ELSE [l EXCEPT !.pc = "answered", !.answer = "list",
                           !.transformed = transformed]

\* transactions.js line 646: next is the callback of the transform the list
\* started in slot 1; x is that transform after the step.
TransformCalledBack(l, t, x) ==
    IF l.pc = "transforming" /\ t = 1 /\ x.pc = "done"
    THEN mapSeriesNext(l, IF x.callbacks[Len(x.callbacks)] = "null"
                          THEN NoError
                          ELSE [from |-> "transformTransaction", code |-> 0],
                       x.transformed)
    ELSE l

\* No currency request has arrived.
NoCurrencyAnswer == [kind |-> "none", currency |-> EmptyString, data |-> ""]

Init ==
    /\ req = IdleRequest
    /\ identityNameCache = [c \in Controllers |-> EmptyCache]
    /\ calls = [k \in Callers |-> None]
    /\ last = NoResolution
    /\ prevOutcome = [a \in Addresses |-> NoOutcome]
    /\ nCalls = 0
    /\ xf = [t \in Slots |-> IdleTransform]
    /\ nTransforms = 0
    /\ addressRequest = NoAddressRequest
    /\ nodeQueries = {}
    /\ nRequests = 0
    /\ inv = << >>
    /\ emitted = << >>
    /\ invCalls = NoCalls
    /\ listing = NoListing
    /\ currencyCache = << >>
    /\ clock = 0
    /\ fetches = [k \in Callers |-> None]
    /\ currencyAnswer = NoCurrencyAnswer

\* Lines 31-40: caller k resolves iAddress on controller 1. A cache hit calls
\* back at once; a miss issues getIdentity and waits for its response.
GetIdentityFriendlyName(k, iAddress, limit) ==
    /\ calls[k] = None
    /\ nCalls < limit
    /\ nCalls' = nCalls + 1
    /\ UNCHANGED <<identityNameCache, transformVars, handlerVars, routeVars>>
    /\ IF CacheHit(identityNameCache[1], iAddress)
       THEN /\ last' = [done |-> TRUE, iAddress |-> iAddress, issued |-> FALSE,
                        identity |-> LookupError, err |-> "null",
                        name |-> identityNameCache[1][iAddress],
                        prev |-> prevOutcome[iAddress],
                        cacheBefore |-> identityNameCache[1][iAddress]]
            /\ prevOutcome' = [prevOutcome EXCEPT ![iAddress] =
                    [done |-> TRUE, lookupErr |-> FALSE,
                     name |-> identityNameCache[1][iAddress],
                     cacheAfter |-> identityNameCache[1][iAddress]]]
            /\ UNCHANGED calls
       ELSE /\ calls' = [calls EXCEPT ![k] =
                    Some([iAddress |-> iAddress, prev |-> prevOutcome[iAddress]])]
            /\ UNCHANGED <<last, prevOutcome>>

\* Lines 40-68: getIdentity responds to caller k's lookup.
GetIdentityResponse(k, response) ==
    /\ calls[k] # None
    /\ LET call == Val(calls[k])
           cache == CacheOnResponse(identityNameCache[1], call.iAddress, response)
           name == NameOnResponse(call.iAddress, response)
       IN /\ identityNameCache' = [identityNameCache EXCEPT ![1] = cache]
          /\ last' = [done |-> TRUE, iAddress |-> call.iAddress, issued |-> TRUE,
                      identity |-> response, err |-> ErrorOnResponse(response),
                      name |-> name, prev |-> call.prev,
                      cacheBefore |-> identityNameCache[1][call.iAddress]]
          /\ prevOutcome' = [prevOutcome EXCEPT ![call.iAddress] =
                  [done |-> TRUE, lookupErr |-> response.err, name |-> name,
                   cacheAfter |-> cache[call.iAddress]]]
    /\ calls' = [calls EXCEPT ![k] = None]
    /\ UNCHANGED <<nCalls, transformVars, handlerVars, routeVars>>

\* The answers the identity service gives in SpecResolver: an error, a
\* registered name with both suffixes, a name that is only suffixes, a
\* response with identity.name alone, and a response with no name at all.
SampleResponses ==
    { LookupError,
      IdentityResponse(FALSE, alice \o VRSC \o AT, alice),
      IdentityResponse(FALSE, AT, EmptyString),
      IdentityResponse(FALSE, EmptyString, bob),
      IdentityResponse(FALSE, EmptyString, EmptyString) }

ResolverAddresses == {iAAA, iBBB}

ResolverNext ==
    \/ \E k \in Callers, a \in ResolverAddresses : GetIdentityFriendlyName(k, a, MaxCalls)
    \/ \E k \in Callers, r \in SampleResponses : GetIdentityResponse(k, r)

SpecResolver == Init /\ [][ResolverNext]_vars

\* ----------------------------------------------------- transform actions

\* Lines 102-182: transformTransaction is called on controller c while the
\* chain is at the given height. When nothing is left pending (no flagged
\* output, every address cached) the rest runs in the same turn.
TransformTransaction(t, c, transaction, height, limit) ==
    /\ xf[t].pc = "idle"
    /\ nTransforms < limit
    /\ nTransforms' = nTransforms + 1
    /\ LET x == StartTransform(c, transaction, NoOptions, height,
                               identityNameCache[c])
       IN xf' = [xf EXCEPT ![t] = IF Wave1Complete(x)
                                  THEN AfterWave1(x, identityNameCache[c])
                                  ELSE x]
    /\ UNCHANGED <<identityNameCache, resolverVars, handlerVars, routeVars>>

\* Lines 102-182: transformTransaction(transaction, options, callback) is
\* called on controller c. Without a function to call back, checkArgument
\* throws (line 107) and the call has done nothing.
TransformTransactionCall(t, c, transaction, options, callback, height, limit) ==
    /\ xf[t].pc \in {"idle", "threw"}
    /\ nTransforms < limit
    /\ nTransforms' = nTransforms + 1
    /\ LET args == [options |-> options, callback |-> callback]
           x == [StartTransform(c, transaction, OptionsOf(options), height,
                                identityNameCache[c]) EXCEPT !.args = args]
       IN xf' = [xf EXCEPT ![t] =
                    IF ~CallbackIsFunction(options, callback)
                    THEN [IdleTransform EXCEPT !.pc = "threw", !.ctl = c,
                                               !.tx = transaction,
                                               !.raw = transaction,
                                               !.args = args]
                    ELSE IF Wave1Complete(x)
                    THEN AfterWave1(x, identityNameCache[c])
                    ELSE x]
    /\ UNCHANGED <<identityNameCache, resolverVars, handlerVars, routeVars>>

\* Lines 91-97: the caller has taken the result its callback was handed;
\* nothing refers to the call any more.
ResultConsumed(t) ==
    /\ xf[t].pc = "done"
    /\ xf' = [xf EXCEPT ![t] = IdleTransform]
    /\ UNCHANGED <<identityNameCache, resolverVars, nTransforms, handlerVars, routeVars>>

\* Lines 160-170: decodeScript responds for the j-th flagged output.
DecodeScriptResponseInTurn(t, j, response) ==
    /\ \A u \in Slots : u < t => ~(xf[u].pc \in {"wave1", "wave2"})
    /\ xf[t].pc = "wave1"
    /\ j \in 1..Len(xf[t].scriptsDecoded)
    /\ xf[t].scriptsDecoded[j] = None
    /\ LET x == [xf[t] EXCEPT
                    !.scriptsDecoded[j] =
                        Some(DecodeItem(xf[t].transformed.vout,
                                        xf[t].scriptsToDecodeIndices[j], response)),
                    !.decodeAnswers =
                        Put(@, xf[t].scriptsToDecodeIndices[j], response)]
       IN xf' = [xf EXCEPT ![t] = IF Wave1Complete(x)
                                  THEN AfterWave1(x, identityNameCache[x.ctl])
                                  ELSE x]
    /\ UNCHANGED <<identityNameCache, resolverVars, nTransforms, handlerVars, routeVars>>

DecodeScriptResponse(t, j, response) ==
    /\ xf[t].pc = "wave1"
    /\ j \in 1..Len(xf[t].scriptsDecoded)
    /\ xf[t].scriptsDecoded[j] = None
    /\ LET x == [xf[t] EXCEPT
                    !.scriptsDecoded[j] =
                        Some(DecodeItem(xf[t].transformed.vout,
                                        xf[t].scriptsToDecodeIndices[j], response)),
                    !.decodeAnswers =
                        Put(@, xf[t].scriptsToDecodeIndices[j], response)]
       IN xf' = [xf EXCEPT ![t] = IF Wave1Complete(x)
                                  THEN AfterWave1(x, identityNameCache[x.ctl])
                                  ELSE x]
    /\ UNCHANGED <<identityNameCache, resolverVars, nTransforms, handlerVars, addressVars, subscriptionVars, currencyVars>>
    /\ listing' = TransformCalledBack(listing, t, xf'[t])

\* Lines 40-68 and 178-180: getIdentity responds for the i-th address of
\* the first wave.
NamesResolvedResponseByArrival(t, i, response) ==
    /\ xf[t].pc = "wave1"
    /\ i \in 1..Len(xf[t].namesResolved)
    /\ Pending(xf[t].namesResolved)
    /\ ~HasKey(xf[t].idAnswers, xf[t].iAddressesToResolve[i])
    /\ LET c == xf[t].ctl
           iAddress == xf[t].iAddressesToResolve[i]
           slot == CHOOSE k \in 1..Len(xf[t].namesResolved) :
                      /\ xf[t].namesResolved[k] = None
                      /\ \A n \in 1..(k - 1) : xf[t].namesResolved[n] # None
           cache == CacheOnResponse(identityNameCache[c], iAddress, response)
           x == [xf[t] EXCEPT
                    !.namesResolved[slot] =
                        Some([iAddress |-> xf[t].iAddressesToResolve[slot],
                              friendlyName |-> NameOnResponse(iAddress, response)]),
                    !.idAnswers = Put(@, iAddress, response)]
       IN /\ identityNameCache' = [identityNameCache EXCEPT ![c] = cache]
          /\ xf' = [xf EXCEPT ![t] = IF Wave1Complete(x)
                                     THEN AfterWave1(x, cache) ELSE x]
    /\ UNCHANGED <<resolverVars, nTransforms, handlerVars, routeVars>>

NamesResolvedResponse(t, i, response) ==
    /\ xf[t].pc = "wave1"
    /\ i \in 1..Len(xf[t].namesResolved)
    /\ xf[t].namesResolved[i] = None
    /\ LET c == xf[t].ctl
           iAddress == xf[t].iAddressesToResolve[i]
           cache == CacheOnResponse(identityNameCache[c], iAddress, response)
           x == [xf[t] EXCEPT
                    !.namesResolved[i] =
                        Some([iAddress |-> iAddress,
                              friendlyName |-> NameOnResponse(iAddress, response)]),
                    !.idAnswers = Put(@, iAddress, response)]
       IN /\ identityNameCache' = [identityNameCache EXCEPT ![c] = cache]
          /\ xf' = [xf EXCEPT ![t] = IF Wave1Complete(x)
                                     THEN AfterWave1(x, cache) ELSE x]
    /\ UNCHANGED <<resolverVars, nTransforms, handlerVars, addressVars, subscriptionVars, currencyVars>>
    /\ listing' = TransformCalledBack(listing, t, xf'[t])

\* Lines 40-68 and 222-228: getIdentity responds for the i-th address of
\* the second wave.
NewResultsResponse(t, i, response) ==
    /\ xf[t].pc = "wave2"
    /\ i \in 1..Len(xf[t].newResults)
    /\ xf[t].newResults[i] = None
    /\ LET c == xf[t].ctl
           iAddress == xf[t].newAddresses[i]
           cache == CacheOnResponse(identityNameCache[c], iAddress, response)
           x == [xf[t] EXCEPT
                    !.newResults[i] =
                        Some([iAddress |-> iAddress,
                              friendlyName |-> NameOnResponse(iAddress, response)]),
                    !.idAnswers = Put(@, iAddress, response)]
       IN /\ identityNameCache' = [identityNameCache EXCEPT ![c] = cache]
          /\ xf' = [xf EXCEPT ![t] = IF Pending(x.newResults)
                                     THEN x ELSE AfterWave2(x)]
    /\ UNCHANGED <<resolverVars, nTransforms, handlerVars, addressVars, subscriptionVars, currencyVars>>
    /\ listing' = TransformCalledBack(listing, t, xf'[t])

\* ------------------------------------------------------- /tx/:txid handler

\* Lines 85-89: what the handler hands to common.handleErrors for an error
\* of getDetailedTransaction.
HandledErrorAsIs(err) == Some(err)

HandledError(err) ==
    IF err.code = -5 THEN None ELSE Some(err)

\* Lines 80-84: a request arrives and the handler asks the node for the
\* transaction. The request served before it, if any, is over.
Transaction ==
    /\ \/ req.pc \in {"idle", "errored"}
       \/ req.pc = "transforming" /\ xf[1].pc = "done"
    /\ req' = [IdleRequest EXCEPT !.pc = "fetching"]
    /\ xf' = [xf EXCEPT ![1] = IdleTransform]
    /\ UNCHANGED <<identityNameCache, resolverVars, nTransforms, routeVars>>

\* Lines 84-98: getDetailedTransaction responds. On an error the handler
\* returns from line 86 or 88; otherwise it calls
\* transformTransaction(transaction, callback) on its controller.
GetDetailedTransactionResponse(response, height, limit) ==
    /\ req.pc = "fetching"
    /\ IF Has(response.err)
       THEN /\ req' = [req EXCEPT
                         !.pc = "errored",
                         !.response = response,
                         !.handleErrors = Append(@, HandledError(Val(response.err)))]
            /\ UNCHANGED transformVars
       ELSE /\ nTransforms < limit
            /\ nTransforms' = nTransforms + 1
            /\ req' = [req EXCEPT !.pc = "transforming", !.response = response]
            /\ LET x == StartTransform(1, response.transaction, NoOptions, height,
                                       identityNameCache[1])
               IN xf' = [xf EXCEPT ![1] = IF Wave1Complete(x)
                                          THEN AfterWave1(x, identityNameCache[1])
                                          ELSE x]
    /\ UNCHANGED <<identityNameCache, resolverVars, routeVars>>

\* Lines 91-97, the callback the handler gives transformTransaction: the
\* errors it has handed to common.handleErrors (line 93) and the times it
\* has called next (line 96), as the calls of that callback determine them.
TransformErrorsHandled ==
    IF req.pc = "transforming"
    THEN SelectSeq(xf[1].callbacks, LAMBDA err : err # "null")
    ELSE << >>

NextCalls ==
    IF req.pc = "transforming"
    THEN Len(SelectSeq(xf[1].callbacks, LAMBDA err : err = "null"))
    ELSE 0

\* ------------------------------------------------------ sample transactions

ValueIn(map) == Some([valuein |-> Some(map), valueinFriendly |-> None])

PlainOutput == RawOutput(plainAddress, None, "76a914", <<"OP_DUP">>, None)
ImportOutput ==
    RawOutput(plainAddress, None, "76a914", <<"OP_DUP">>,
              ValueIn(<< <<iAAA, 100>>, <<iBBB, 50>> >>))
FeePoolOutput == RawOutput(FeePoolAddress, None, "04030001", <<"OP_CHECKCRYPTOCONDITION">>, None)
NotarizationOutput ==
    RawOutput(NotarizationAddress, None, "04030002", <<"OP_CHECKCRYPTOCONDITION">>, None)
OpReturnOutput == RawOutput(EmptyString, None, "6a00", <<"OP_RETURN", "00">>, None)

\* The outputs the enrichment acts on.
SampleOutputs ==
    <<ImportOutput, FeePoolOutput, NotarizationOutput, OpReturnOutput>>

\* Every list of at most n different sample outputs, in the order of
\* SampleOutputs: the passes treat each output by what it is, not by where
\* it stands.
OutputLists(n) ==
    UNION { { [i \in 1..k |-> SampleOutputs[pick[i]]] :
                pick \in { f \in [1..k -> 1..Len(SampleOutputs)] :
                              \A i \in 1..k, j \in 1..k : i < j => f[i] < f[j] } }
            : k \in 0..n }

SampleInput == RawInput("prevtx", 0, "483045", 0)

\* One transaction per list, one per output taken twice, and one with an
\* output that needs nothing.
EnrichTransactions ==
    { RawTransaction("txid", FALSE, <<SampleInput>>, outputs, 100) :
        outputs \in (OutputLists(MaxOutputs) \ {<< >>})
                       \cup {<<SampleOutputs[i], SampleOutputs[i]>> : i \in 1..Len(SampleOutputs)}
                       \cup {<<PlainOutput, ImportOutput>>} }

\* The answers of decodeScript: an error (with the body the RPC client
\* passes along with it), a result with none of the members, a result with
\* all. The fee pool holds two identity addresses and a key that is none.
FullResult ==
    DecodedResult(Some(FeePool(Some(<< <<iAAA, 1>>, <<iCCC, 2>>, <<plainAddress, 3>> >>))),
                  Some(AcceptedNotarization(iAAA)), "bP2SH")

SampleDecodes ==
    { DecodeResponse(TRUE, Some(FullResult)),
      DecodeResponse(FALSE, Some(DecodedResult(None, None, ""))),
      DecodeResponse(FALSE, Some(FullResult)) }

\* The answers of the identity service in Spec.
EnrichResponses ==
    { LookupError,
      IdentityResponse(FALSE, alice \o VRSC \o AT, alice),
      IdentityResponse(FALSE, AT, EmptyString) }

ChainHeight == 105

Next ==
    \/ \E tx \in EnrichTransactions :
          TransformTransaction(1, 1, tx, ChainHeight, MaxTransforms)
    \/ ResultConsumed(1)
    \/ \E j \in 1..MaxOutputs, r \in SampleDecodes : DecodeScriptResponse(1, j, r)
    \/ \E i \in 1..Cardinality(Addresses), r \in EnrichResponses :
          NamesResolvedResponse(1, i, r)
    \/ \E i \in 1..Cardinality(Addresses), r \in EnrichResponses :
          NewResultsResponse(1, i, r)

Spec == Init /\ [][Next]_vars

\* ------------------------------------------------ every call is answered

\* Transactions that need decodes, lookups, and a second wave.
AnsweredTransactions ==
    { RawTransaction("txid", FALSE, <<SampleInput>>, outputs, 100) :
        outputs \in { <<ImportOutput, FeePoolOutput>>,
                      <<FeePoolOutput, NotarizationOutput>>,
                      <<OpReturnOutput>> } }

\* A decodeScript or getIdentity call of the transform is answered.
Answered ==
    \/ \E j \in 1..2, r \in SampleDecodes : DecodeScriptResponse(1, j, r)
    \/ \E i \in 1..Cardinality(Addresses), r \in EnrichResponses :
          NamesResolvedResponse(1, i, r)
    \/ \E i \in 1..Cardinality(Addresses), r \in EnrichResponses :
          NewResultsResponse(1, i, r)

AnsweredNext ==
    \/ \E tx \in AnsweredTransactions :
          TransformTransaction(1, 1, tx, ChainHeight, 1)
    \/ Answered

\* Every decodeScript and getIdentity call issued is answered in the end:
\* while the transform waits on a call, some answer arrives.
SpecAnswered == Init /\ [][AnsweredNext]_vars /\ WF_vars(Answered)

\* ------------------------------------------------- transactions by shape

SampleInputs ==
    { RawInput("prevtx", 0, "483045", 0), RawInput("prevtx", 1, "03a1b2", 7) }

\* Every sequence of at most n sample inputs.
RECURSIVE InputLists(_)
InputLists(n) ==
    IF n = 0
    THEN {<< >>}
    ELSE LET shorter == InputLists(n - 1)
         IN shorter \cup {Append(l, i) : l \in shorter, i \in SampleInputs}

\* Transactions without enrichment work: coinbase (one input at least) or
\* not, confirmed or not.
ShapeTransactions ==
    { RawTransaction("txid", coinbase, inputs, outputs, height) :
        coinbase \in BOOLEAN, inputs \in InputLists(MaxInputs),
        outputs \in {<< >>, <<PlainOutput>>}, height \in {-1, 0, 100} }
    \ { RawTransaction("txid", TRUE, << >>, outputs, height) :
        outputs \in {<< >>, <<PlainOutput>>}, height \in {-1, 0, 100} }

ShapeNext ==
    \/ \E tx \in ShapeTransactions :
          TransformTransaction(1, 1, tx, ChainHeight, MaxTransforms)
    \/ ResultConsumed(1)

SpecShape == Init /\ [][ShapeNext]_vars

\* ------------------------------------------------- transactions by field

\* The heights the node reports and the heights of the transactions.
ChainHeights == {ChainHeight - 5, ChainHeight}

TxHeights == {-1, 0, ChainHeight - 5, ChainHeight - 4, ChainHeight}

HeightTransactions ==
    { RawTransaction("txid", coinbase, <<SampleInput>>, <<PlainOutput>>, height) :
        coinbase \in BOOLEAN, height \in TxHeights }

\* Amounts in minimal units.
SampleAmounts == {0, 1, 99999999, 100000000, 123456789, 2099999999}

MoneyTransactions ==
    { [RawTransaction("txid", coinbase, <<SampleInput>>,
                      <<[PlainOutput EXCEPT !.satoshis = amount]>>, 100)
         EXCEPT !.outputSatoshis = amount, !.inputSatoshis = amount,
                !.feeSatoshis = amount] :
        coinbase \in BOOLEAN, amount \in SampleAmounts }

SampleJoinSplit == [oldZatoshis |-> 0, newZatoshis |-> 123456789]

VersionTransactions ==
    { [RawTransaction("txid", FALSE, <<SampleInput>>, outputs, 100)
         EXCEPT !.version = version, !.fOverwintered = fOverwintered,
                !.bindingSig = bindingSig,
                !.joinSplits = IF version >= 2 THEN <<SampleJoinSplit>> ELSE << >>] :
        outputs \in {<<PlainOutput>>, <<FeePoolOutput>>},
        version \in 1..4, fOverwintered \in BOOLEAN, bindingSig \in {"", "sig"} }

\* Outputs by address: a nulldata output, which has no address at all, and
\* outputs of every other script with each choice of address and addresses.
TagOutputs ==
    {OpReturnOutput} \cup
    { RawOutput(address, addresses, "76a914", <<"OP_DUP">>, None) :
        address \in {EmptyString, plainAddress, FeePoolAddress,
                     NotarizationAddress, otherProtocolAddress},
        addresses \in {None, Some(<< >>), Some(<<plainAddress>>),
                       Some(<<FeePoolAddress, plainAddress>>),
                       Some(<<NotarizationAddress>>),
                       Some(<<otherProtocolAddress, plainAddress>>)} }

TagTransactions ==
    { RawTransaction("txid", FALSE, <<SampleInput>>, <<output>>, 100) :
        output \in TagOutputs }

SpentOutput ==
    [PlainOutput EXCEPT !.spentTxId = "spender", !.spentIndex = Some(0),
                        !.spentHeight = Some(101)]

OptionTransactions ==
    { RawTransaction("txid", coinbase, inputs, outputs, 100) :
        coinbase \in BOOLEAN,
        inputs \in InputLists(MaxInputs) \ {<< >>},
        outputs \in {<<PlainOutput>>, <<SpentOutput, PlainOutput>>} }

ImportTransactions ==
    { RawTransaction("txid", FALSE, <<SampleInput>>, <<SpentOutput, ImportOutput>>, 100) }

FieldTransactions ==
    HeightTransactions \cup MoneyTransactions \cup VersionTransactions
        \cup TagTransactions \cup OptionTransactions \cup ImportTransactions

\* What a caller passes in the options position.
OptionArguments ==
    {FunctionArgument} \cup
    { OptionsArgument(noScriptSig, noAsm, noSpent) :
        noScriptSig \in BOOLEAN, noAsm \in BOOLEAN, noSpent \in BOOLEAN }

\* The heights are drawn for the transactions that differ in height, the
\* options for those that differ in what the options suppress.
FieldsNext ==
    \/ /\ nTransforms = 0
       /\ \E tx \in FieldTransactions, options \in OptionArguments,
             callback \in BOOLEAN, height \in ChainHeights :
             /\ height = ChainHeight \/ tx \in HeightTransactions
             /\ \/ options = FunctionArgument
                \/ tx \in OptionTransactions \cup ImportTransactions
             /\ TransformTransactionCall(1, 1, tx, options, callback, height, 1)
    \/ ResultConsumed(1)
    \/ \E j \in 1..MaxOutputs, r \in SampleDecodes : DecodeScriptResponse(1, j, r)
    \/ \E i \in 1..Cardinality(Addresses), r \in EnrichResponses :
          NamesResolvedResponse(1, i, r)
    \/ \E i \in 1..Cardinality(Addresses), r \in EnrichResponses :
          NewResultsResponse(1, i, r)

SpecFields == Init /\ [][FieldsNext]_vars

\* ------------------------------------------------------ requests served

\* The answers of getDetailedTransaction: not found (code -5), a transport
\* failure, a transaction.
FetchErrors == { [code |-> -5], [code |-> -1], [code |-> -32603] }

HandlerTransactions ==
    { RawTransaction("txid", FALSE, <<SampleInput>>, outputs, 100) :
        outputs \in {<<PlainOutput>>, <<ImportOutput>>, <<FeePoolOutput>>} }

FetchResponses ==
    { DetailedTransactionResponse(Some(err), NoTransaction) : err \in FetchErrors }
      \cup { DetailedTransactionResponse(None, tx) : tx \in HandlerTransactions }

HandlerNext ==
    \/ Transaction
    \/ \E r \in FetchResponses :
          GetDetailedTransactionResponse(r, ChainHeight, MaxTransforms)
    \/ \E j \in 1..MaxOutputs, r \in SampleDecodes : DecodeScriptResponse(1, j, r)
    \/ \E i \in 1..Cardinality(Addresses), r \in EnrichResponses :
          NamesResolvedResponse(1, i, r)
    \/ \E i \in 1..Cardinality(Addresses), r \in EnrichResponses :
          NewResultsResponse(1, i, r)

SpecHandler == Init /\ [][HandlerNext]_vars

\* ------------------------------------ resolutions and transforms together

\* A direct resolution and two transforms, which may all be in progress at
\* once, on controller 1 and its one cache. The transactions need lookups and no
\* decode.
SharedTransactions ==
    { RawTransaction("txid", FALSE, <<SampleInput>>, <<ImportOutput>>, 100) }

SharedNext ==
    \/ GetIdentityFriendlyName(1, iAAA, 1)
    \/ \E r \in EnrichResponses : GetIdentityResponse(1, r)
    \/ \E t \in Slots, tx \in SharedTransactions :
          TransformTransaction(t, 1, tx, ChainHeight, 2)
    \/ \E t \in Slots : ResultConsumed(t)
    \/ \E t \in Slots, i \in 1..Cardinality(Addresses), r \in EnrichResponses :
          NamesResolvedResponse(t, i, r)

SpecShared == Init /\ [][SharedNext]_vars

\* ------------------------------------------------ notarization outputs

\* Transactions with an accepted-notarization output, alone and after an
\* import whose valuein names the notarized currency.
NotarizationTransactions ==
    { RawTransaction("txid", FALSE, <<SampleInput>>, outputs, 100) :
        outputs \in { <<NotarizationOutput>>, <<ImportOutput, NotarizationOutput>> } }

\* The answers of decodeScript here: an error, a notarization of the
\* currency iAAA, and one whose currencyid is no identity address.
NotarizationDecodes ==
    { DecodeResponse(TRUE, Some(FullResult)),
      DecodeResponse(FALSE, Some(FullResult)),
      DecodeResponse(FALSE, Some(DecodedResult(None,
                                Some(AcceptedNotarization(plainAddress)), ""))) }

NotarizationNext ==
    \/ \E tx \in NotarizationTransactions :
          TransformTransaction(1, 1, tx, ChainHeight, MaxTransforms)
    \/ ResultConsumed(1)
    \/ \E r \in NotarizationDecodes : DecodeScriptResponse(1, 1, r)
    \/ \E i \in 1..Cardinality(Addresses), r \in EnrichResponses :
          NamesResolvedResponse(1, i, r)
    \/ \E i \in 1..Cardinality(Addresses), r \in EnrichResponses :
          NewResultsResponse(1, i, r)

SpecNotarization == Init /\ [][NotarizationNext]_vars

\* ------------------------------------------------- a transform that hangs

\* Two transforms on controller 1, the second called while the first is in
\* progress; the services answer the calls of either in any order, or not.
StalledTransactions ==
    { RawTransaction("txid", FALSE, <<SampleInput>>, outputs, 100) :
        outputs \in { <<ImportOutput>>, <<NotarizationOutput>> } }

\* A decodeScript or getIdentity call of transform t is answered.
AnsweredTo(t) ==
    \/ \E j \in 1..2, r \in SampleDecodes : DecodeScriptResponse(t, j, r)
    \/ \E i \in 1..Cardinality(Addresses), r \in EnrichResponses :
          NamesResolvedResponse(t, i, r)
    \/ \E i \in 1..Cardinality(Addresses), r \in EnrichResponses :
          NewResultsResponse(t, i, r)

StalledNext ==
    \/ /\ nTransforms = 0
       /\ \E tx \in StalledTransactions :
             TransformTransaction(1, 1, tx, ChainHeight, 2)
    \/ /\ nTransforms = 1
       /\ \E tx \in StalledTransactions :
             TransformTransaction(2, 1, tx, ChainHeight, 2)
    \/ \E t \in Slots : AnsweredTo(t)

SpecStalled == Init /\ [][StalledNext]_vars

\* ------------------------------------------- two runs, options differing

\* One transaction transformed twice, each time with its own options, on
\* two controllers under the same node height.
OptionsNext ==
    \/ /\ nTransforms = 0
       /\ \E tx \in OptionTransactions, options \in OptionArguments :
             TransformTransactionCall(1, 1, tx, options, TRUE, ChainHeight, 2)
    \/ /\ nTransforms = 1
       /\ xf[1].pc = "done"
       /\ \E options \in OptionArguments :
             TransformTransactionCall(2, 2, xf[1].raw, options, TRUE, ChainHeight, 2)

SpecOptions == Init /\ [][OptionsNext]_vars

\* ------------------------------------------------------------- two runs

\* The same transaction transformed twice, on two controllers whose caches
\* start empty, the services answering the second run as they answered the
\* first except for at most one lookup or decode, which fails in one of
\* the two runs and succeeds in the other.
Differing(answers1, answers2) ==
    {k \in {answers1[i][1] : i \in 1..Len(answers1)} :
        HasKey(answers2, k) /\ Get(answers2, k) # Get(answers1, k)}

SameButOne(x1, x2) ==
    /\ Cardinality(Differing(x1.idAnswers, x2.idAnswers))
         + Cardinality(Differing(x1.decodeAnswers, x2.decodeAnswers)) <= 1
    /\ \A a \in Differing(x1.idAnswers, x2.idAnswers) :
          Get(x1.idAnswers, a).err # Get(x2.idAnswers, a).err
    /\ \A j \in Differing(x1.decodeAnswers, x2.decodeAnswers) :
          Get(x1.decodeAnswers, j).err # Get(x2.decodeAnswers, j).err

PairNext ==
    \/ \E tx \in EnrichTransactions : TransformTransaction(1, 1, tx, ChainHeight, 1)
    \/ /\ xf[1].pc = "done"
       /\ TransformTransaction(2, 2, xf[1].tx, ChainHeight, 2)
    \/ \E j \in 1..MaxOutputs, r \in SampleDecodes : DecodeScriptResponse(1, j, r)
    \/ \E i \in 1..Cardinality(Addresses), r \in EnrichResponses :
          NamesResolvedResponse(1, i, r)
    \/ \E i \in 1..Cardinality(Addresses), r \in EnrichResponses :
          NewResultsResponse(1, i, r)
    \/ \E j \in 1..MaxOutputs, r \in SampleDecodes :
          DecodeScriptResponse(2, j, r) /\ SameButOne(xf[1], xf'[2])
    \/ \E i \in 1..Cardinality(Addresses), r \in EnrichResponses :
          NamesResolvedResponse(2, i, r) /\ SameButOne(xf[1], xf'[2])
    \/ \E i \in 1..Cardinality(Addresses), r \in EnrichResponses :
          NewResultsResponse(2, i, r) /\ SameButOne(xf[1], xf'[2])

SpecPair == Init /\ [][PairNext]_vars

\* --------------------------------------- two runs, the answers the same

\* The same transaction transformed twice, on two controllers whose caches
\* start empty. The services answer the first run as they please; in the
\* second they give each decode and each lookup the answer they gave it in
\* the first, in any order.
OrdersNext ==
    \/ \E tx \in EnrichTransactions : TransformTransaction(1, 1, tx, ChainHeight, 1)
    \/ /\ xf[1].pc = "done"
       /\ TransformTransaction(2, 2, xf[1].raw, ChainHeight, 2)
    \/ \E j \in 1..MaxOutputs, r \in SampleDecodes : DecodeScriptResponse(1, j, r)
    \/ \E i \in 1..Cardinality(Addresses), r \in EnrichResponses :
          NamesResolvedResponse(1, i, r)
    \/ \E i \in 1..Cardinality(Addresses), r \in EnrichResponses :
          NewResultsResponse(1, i, r)
    \/ \E j \in 1..Len(xf[2].scriptsDecoded) :
          /\ HasKey(xf[1].decodeAnswers, xf[2].scriptsToDecodeIndices[j])
          /\ DecodeScriptResponse(2, j,
                Get(xf[1].decodeAnswers, xf[2].scriptsToDecodeIndices[j]))
    \/ \E i \in 1..Len(xf[2].namesResolved) :
          /\ xf[2].pc = "wave1"
          /\ HasKey(xf[1].idAnswers, xf[2].iAddressesToResolve[i])
          /\ NamesResolvedResponse(2, i,
                Get(xf[1].idAnswers, xf[2].iAddressesToResolve[i]))
    \/ \E i \in 1..Len(xf[2].newResults) :
          /\ HasKey(xf[1].idAnswers, xf[2].newAddresses[i])
          /\ NewResultsResponse(2, i, Get(xf[1].idAnswers, xf[2].newAddresses[i]))

SpecOrders == Init /\ [][OrdersNext]_vars

\* Every string of at most n tokens.
RECURSIVE TokenStrings(_)
TokenStrings(n) ==
    IF n = 0
    THEN {EmptyString}
    ELSE LET shorter == TokenStrings(n - 1)
         IN shorter \cup {s \o t : s \in shorter, t \in {bob, AT, VRSC}}

\* The answers of the identity service in SpecNames: every friendly name of
\* at most MaxTokens tokens, with or without an identity.name that itself
\* ends in a suffix.
AllResponses ==
    {LookupError} \cup
    { IdentityResponse(FALSE, f, n) :
        f \in TokenStrings(MaxTokens),
        n \in {EmptyString, bob, bob \o VRSC, bob \o AT, bob \o VRSC \o AT} }

NamesNext ==
    \/ GetIdentityFriendlyName(1, iAAA, 1)
    \/ \E r \in AllResponses : GetIdentityResponse(1, r)

SpecNames == Init /\ [][NamesNext]_vars

\* ------------------------------------------------------------------ claims

\* An outcome after which the cache holds a name the next call can hit.
Repeatable(outcome) ==
    outcome.done /\ ~outcome.lookupErr /\ outcome.name # EmptyString

\* C1 as stated: a resolution of an address that has been resolved before,
\* whatever the identity service answered then, issues no getIdentity call
\* and returns the name the earlier resolution returned.
C1_AnySecondResolutionIsCached ==
    /\ (last.done /\ last.prev.done) =>
          (~last.issued /\ last.name = last.prev.name)
    /\ \A k \in Callers : calls[k] # None => ~Val(calls[k]).prev.done

\* C1 amended: a resolution that starts after the latest completed resolution
\* of the same address ended without a lookup error and with a non-empty
\* name issues no getIdentity call and returns that same name.
C1_SecondResolutionIsCached ==
    /\ (last.done /\ Repeatable(last.prev)) =>
          (~last.issued /\ last.name = last.prev.name)
    /\ \A k \in Callers : calls[k] # None => ~Repeatable(Val(calls[k]).prev)

C1_Witness ==
    /\ last.done /\ Repeatable(last.prev)
    /\ ~last.issued /\ last.name = alice

\* The first half of C2: a lookup error is not passed on, the address is
\* returned as the name and the cache entry is left as it was.
LookupErrorIsSwallowed ==
    (last.done /\ last.issued /\ last.identity.err) =>
        /\ last.err = "null"
        /\ last.name = last.iAddress
        /\ identityNameCache[1][last.iAddress] = last.cacheBefore

\* C2 as stated: a lookup error is swallowed, the address is returned, the
\* cache is unchanged, and the next resolution of that address issues a new
\* getIdentity lookup.
C2_ErrorThenRetry ==
    /\ LookupErrorIsSwallowed
    /\ (last.done /\ last.prev.done /\ last.prev.lookupErr) => last.issued

\* C2 amended: as C2, the next resolution issuing a new lookup when the
\* failed resolution left no name in the cache (an overlapping resolution
\* of the same address may have stored one).
C2_ErrorThenRetryUnlessCached ==
    /\ LookupErrorIsSwallowed
    /\ (last.done /\ last.prev.done /\ last.prev.lookupErr
          /\ ~Truthy(last.prev.cacheAfter)) => last.issued

C2_Witness ==
    /\ last.done /\ last.issued
    /\ last.prev.done /\ last.prev.lookupErr /\ ~Truthy(last.prev.cacheAfter)
    /\ last.prev.name = last.iAddress

\* C3: a successful lookup that carries identityinfo.friendlyname f yields
\* the name n with f = n \o v \o a, where a is "@" exactly when f ends in
\* "@" and v is ".VRSC" exactly when f without that "@" ends in ".VRSC":
\* one of each suffix at most, "@" first. bob.VRSC@, bob@ and bob.VRSC all
\* yield bob.
C3_SuffixStripping ==
    (last.done /\ last.issued /\ ~last.identity.err
      /\ last.identity.friendlyname # EmptyString) =>
        LET f == last.identity.friendlyname
            n == last.name
        IN /\ \E a \in {EmptyString, AT}, v \in {EmptyString, VRSC} :
                /\ f = n \o v \o a
                /\ (a = AT) <=> EndsWith(f, AT)
                /\ (v = EmptyString) => ~EndsWith(n, VRSC)
           /\ f \in {bob \o VRSC \o AT, bob \o AT, bob \o VRSC} => n = bob
           /\ f = bob \o AT \o AT => n = bob \o AT
           /\ f = bob \o VRSC \o VRSC => n = bob \o VRSC

C3_Witness ==
    /\ last.done /\ last.issued /\ ~last.identity.err
    /\ last.identity.friendlyname = bob \o VRSC \o AT
    /\ last.name = bob

\* C4: a successful lookup without identityinfo.friendlyname yields
\* identity.name as it is, suffixes included, and the address itself when
\* identity.name is missing too.
C4_FallbackVerbatim ==
    (last.done /\ last.issued /\ ~last.identity.err
      /\ last.identity.friendlyname = EmptyString) =>
        /\ last.identity.name # EmptyString => last.name = last.identity.name
        /\ last.identity.name = EmptyString => last.name = last.iAddress

C4_Witness ==
    /\ last.done /\ last.issued /\ ~last.identity.err
    /\ last.identity.friendlyname = EmptyString
    /\ last.name = bob \o VRSC \o AT

\* ------------------------------------------------ claims on the transform

Done(t) == xf[t].pc = "done"

\* The transform waits for answers to its calls.
Waiting(t) == xf[t].pc \in {"wave1", "wave2"}

Outputs(t) == xf[t].transformed.vout

\* The addresses transform t passed to the resolver in the given wave.
WaveAddresses(t, wave) ==
    {xf[t].resolverCalls[i].iAddress :
        i \in {n \in 1..Len(xf[t].resolverCalls) : xf[t].resolverCalls[n].wave = wave}}

\* The name the resolver handed back for an address in transform t.
ResolvedName(t, iAddress) ==
    (CHOOSE r \in {Val(xf[t].namesResolved[i]) : i \in 1..Len(xf[t].namesResolved)} :
        r.iAddress = iAddress).friendlyName

WasResolved(t, iAddress) ==
    \E i \in 1..Len(xf[t].namesResolved) :
        Val(xf[t].namesResolved[i]).iAddress = iAddress

\* The key an address is to appear under: its resolved name, the address
\* itself when its lookup failed (the resolver then hands back the address),
\* when the name is empty or when it was never passed to the resolver.
FriendlyKey(t, key) ==
    IF WasResolved(t, key) /\ ResolvedName(t, key) # EmptyString
    THEN ResolvedName(t, key)
    ELSE key

\* C5: after the transform, every output with crosschainimport.valuein has
\* a valueinFriendly in which each key of valuein appears under its resolved
\* name, or under itself when its resolution failed, with its own amount.
C5_ValueinFriendly ==
    Done(1) =>
        \A i \in 1..Len(Outputs(1)) :
            LET c == Outputs(1)[i].crosschainimport
            IN (Has(c) /\ Has(Val(c).valuein)) =>
                 /\ Has(Val(c).valueinFriendly)
                 /\ \A k \in 1..Len(Val(Val(c).valuein)) :
                       LET entry == Val(Val(c).valuein)[k]
                       IN Get(Val(Val(c).valueinFriendly), FriendlyKey(1, entry[1]))
                            = entry[2]

\* The fee-pool keys of output i that only the decode revealed.
RevealedByFeePool(t, i) ==
    LET f == Outputs(t)[i].feepool
    IN IF Has(f)
       THEN {a \in {Val(Val(f).currencyvalues)[k][1] :
                       k \in 1..Len(Val(Val(f).currencyvalues))} :
                StartsWith(a, <<"i">>) /\ a \notin WaveAddresses(t, 1)}
       ELSE {}

SecondWaveCalls(t, iAddress) ==
    Cardinality({n \in 1..Len(xf[t].resolverCalls) :
                    /\ xf[t].resolverCalls[n].wave = 2
                    /\ xf[t].resolverCalls[n].iAddress = iAddress})

\* C6 as stated: an identity address that only the decode of a fee-pool
\* output revealed gets exactly one second-wave resolver call, and the
\* output's currencyvaluesFriendly has the name that call resolved as a key.
C6_SecondWaveKeyedByName ==
    Done(1) =>
        \A i \in 1..Len(Outputs(1)) : \A a \in RevealedByFeePool(1, i) :
            /\ SecondWaveCalls(1, a) = 1
            /\ HasKey(Val(Val(Outputs(1)[i].feepool).currencyvaluesFriendly),
                      ResolvedName(1, a))

\* C6 amended: as C6, the key being the address itself when the name the
\* call resolved is the empty string.
C6_SecondWaveKeyedByNameOrAddress ==
    Done(1) =>
        \A i \in 1..Len(Outputs(1)) : \A a \in RevealedByFeePool(1, i) :
            /\ SecondWaveCalls(1, a) = 1
            /\ HasKey(Val(Val(Outputs(1)[i].feepool).currencyvaluesFriendly),
                      IF ResolvedName(1, a) # EmptyString
                      THEN ResolvedName(1, a) ELSE a)

C6_Witness ==
    /\ Done(1)
    /\ \E i \in 1..Len(Outputs(1)) :
          /\ iCCC \in RevealedByFeePool(1, i)
          /\ ResolvedName(1, iCCC) = alice
          /\ HasKey(Val(Val(Outputs(1)[i].feepool).currencyvaluesFriendly), alice)

\* The outputs of transform t whose decode returned an error.
DecodeFailed(t) ==
    {j \in 0..(Len(Outputs(t)) - 1) :
        HasKey(xf[t].decodeAnswers, j) /\ Get(xf[t].decodeAnswers, j).err}

LookupFailed(t) ==
    {a \in Addresses : HasKey(xf[t].idAnswers, a) /\ Get(xf[t].idAnswers, a).err}

\* A transform stops only to wait for a response, and then for one that is
\* still due.
NeverStuck(t) ==
    /\ xf[t].pc = "wave1" => ~Wave1Complete(xf[t])
    /\ xf[t].pc = "wave2" => Pending(xf[t].newResults)

\* C7: an output whose decode returned an error has no feepool, no
\* acceptednotarization and no p2shAddress, and the transform completes
\* handing its callback no error.
C7_DecodeFailureLeavesOutputBare ==
    /\ NeverStuck(1)
    /\ Done(1) =>
          /\ xf[1].callbacks = <<"null">>
          /\ \A j \in DecodeFailed(1) :
                /\ Outputs(1)[j + 1].feepool = None
                /\ Outputs(1)[j + 1].acceptednotarization = None
                /\ Outputs(1)[j + 1].p2shAddress = ""
                /\ ~Outputs(1)[j + 1].isP2SH

C7_Witness ==
    /\ Done(1)
    /\ \E j \in DecodeFailed(1) :
          /\ Outputs(1)[j + 1].scriptDecodeType = "feepool"
          /\ Outputs(1)[j + 1].feepool = None

\* C8: whichever lookups and decodes fail, the callback is invoked at most
\* once, with a null error and an object that has txid, vin, vout and the
\* scalar fields.
C8_CallbackOnceWithoutError ==
    /\ Len(xf[1].callbacks) <= 1
    /\ NeverStuck(1)
    /\ Done(1) <=> Len(xf[1].callbacks) = 1
    /\ Done(1) =>
          /\ xf[1].callbacks[1] = "null"
          /\ xf[1].transformed.txid = xf[1].tx.hash
          /\ Len(xf[1].transformed.vout) = Len(xf[1].tx.outputs)
          /\ Len(xf[1].transformed.vin) = Len(xf[1].tx.inputs)
          /\ Has(xf[1].transformed.scalars)

C8_Witness ==
    /\ Done(1)
    /\ DecodeFailed(1) # {}
    /\ LookupFailed(1) # {}
    /\ xf[1].callbacks = <<"null">>

\* The entry of a friendly-keyed map that belongs to a key of its source:
\* the key it was written under and the amount found there.
EntryOf(t, friendly, key) ==
    LET name == NameOrAddress(xf[t].nameMapping, key)
    IN <<name, Get(friendly, name)>>

SameEntries(source1, friendly1, source2, friendly2, differing) ==
    (Has(source1) /\ Has(source2)) =>
        \A k \in 1..Len(Val(source1)) :
            LET key == Val(source1)[k][1]
            IN (key \notin differing /\ HasKey(Val(source2), key)) =>
                  EntryOf(1, Val(friendly1), key) = EntryOf(2, Val(friendly2), key)

FeePoolOf(v) == IF Has(v.feepool) THEN Val(v.feepool) ELSE FeePool(None)

\* C9: of two runs on the same transaction that differ in the failure of
\* one lookup or of one decode, the friendly-name entries of every other
\* address and the decoded payloads of every other output are the same.
C9_FailureConfined ==
    (Done(1) /\ Done(2)) =>
        LET addresses == Differing(xf[1].idAnswers, xf[2].idAnswers)
            decodes == Differing(xf[1].decodeAnswers, xf[2].decodeAnswers)
        IN \A i \in 1..Len(Outputs(1)) :
              LET v1 == Outputs(1)[i]
                  v2 == Outputs(2)[i]
              IN /\ Has(v1.crosschainimport) =>
                      SameEntries(Val(v1.crosschainimport).valuein,
                                  Val(v1.crosschainimport).valueinFriendly,
                                  Val(v2.crosschainimport).valuein,
                                  Val(v2.crosschainimport).valueinFriendly,
                                  addresses)
                 /\ SameEntries(FeePoolOf(v1).currencyvalues,
                                FeePoolOf(v1).currencyvaluesFriendly,
                                FeePoolOf(v2).currencyvalues,
                                FeePoolOf(v2).currencyvaluesFriendly, addresses)
                 /\ (i - 1) \notin decodes =>
                      /\ FeePoolOf(v1).currencyvalues = FeePoolOf(v2).currencyvalues
                      /\ Has(v1.acceptednotarization) = Has(v2.acceptednotarization)
                      /\ Has(v1.acceptednotarization) =>
                            Val(v1.acceptednotarization).currencyid
                              = Val(v2.acceptednotarization).currencyid
                      /\ v1.p2shAddress = v2.p2shAddress
                      /\ v1.isP2SH = v2.isP2SH

\* C10: a coinbase transaction gets one input, with the script of raw input
\* 0 as coinbase and n = 0, however many inputs it has; any other
\* transaction gets one input per raw input, n being its index.
C10_CoinbaseInput ==
    Done(1) =>
        LET vin == xf[1].transformed.vin
            inputs == xf[1].tx.inputs
        IN IF xf[1].tx.coinbase
           THEN /\ Len(vin) = 1
                /\ vin[1].coinbase = inputs[1].script
                /\ vin[1].n = 0
           ELSE /\ Len(vin) = Len(inputs)
                /\ \A i \in 1..Len(vin) :
                      /\ vin[i].n = i - 1
                      /\ vin[i].coinbase = ""
                      /\ vin[i].txid = inputs[i].prevTxId
                      /\ vin[i].vout = inputs[i].outputIndex

C10_Witness ==
    /\ Done(1)
    /\ xf[1].tx.coinbase
    /\ Len(xf[1].tx.inputs) = 2
    /\ Len(xf[1].transformed.vin) = 1

\* ------------------------------------------------ claims on the fields

Scalars(t) == Val(xf[t].transformed.scalars)

\* C11: confirmations is the node's height - transaction.height + 1 for a
\* transaction with height >= 0 and 0 for any other (height 100 under chain
\* height 105 gives 6); a transaction of height -1 has confirmations 0 and
\* no blocktime.
C11_Confirmations ==
    Done(1) =>
        LET h == xf[1].raw.height
        IN /\ h >= 0 => Scalars(1).confirmations = xf[1].nodeHeight - h + 1
           /\ h < 0 => Scalars(1).confirmations = 0
           /\ (h = 100 /\ xf[1].nodeHeight = 105) => Scalars(1).confirmations = 6
           /\ h = -1 => Scalars(1).blocktime = None

C11_Witness ==
    /\ Done(1)
    /\ xf[1].raw.height = -1
    /\ Scalars(1).confirmations = 0
    /\ Scalars(1).blocktime = None

DigitValue(c) == CHOOSE d \in 0..9 : DigitChar(d) = c

IsDigit(c) == \E d \in 0..9 : DigitChar(d) = c

RECURSIVE ParseDigits(_)
ParseDigits(digits) ==
    IF digits = << >>
    THEN 0
    ELSE 10 * ParseDigits(SubSeq(digits, 1, Len(digits) - 1))
           + DigitValue(digits[Len(digits)])

\* str is a decimal numeral with exactly 8 decimals that denotes
\* satoshis / 1e8.
IsFixed8(str, satoshis) ==
    /\ Len(str) >= 10
    /\ str[Len(str) - 8] = "."
    /\ \A i \in 1..Len(str) : i # Len(str) - 8 => IsDigit(str[i])
    /\ (Len(str) > 10) => str[1] # "0"
    /\ ParseDigits(SubSeq(str, 1, Len(str) - 9)) * 100000000
          + ParseDigits(SubSeq(str, Len(str) - 7, Len(str))) = satoshis

\* number is the number satoshis / 1e8.
IsDiv1e8(number, satoshis) ==
    /\ number.frac \in 0..99999999
    /\ number.whole * 100000000 + number.frac = satoshis

\* C12: the value of every output is the numeral of satoshis / 1e8 with
\* exactly 8 decimals, a string (123456789 gives "1.23456789"); valueOut,
\* and valueIn and fees where the transaction has them, are the numbers
\* outputSatoshis / 1e8, inputSatoshis / 1e8 and feeSatoshis / 1e8
\* (outputSatoshis 100000000 gives valueOut = 1).
C12_MonetaryValues ==
    Done(1) =>
        /\ \A i \in 1..Len(Outputs(1)) :
              /\ IsFixed8(Outputs(1)[i].value, xf[1].raw.outputs[i].satoshis)
              /\ xf[1].raw.outputs[i].satoshis = 123456789 =>
                    Outputs(1)[i].value
                      = <<"1", ".", "2", "3", "4", "5", "6", "7", "8", "9">>
        /\ IsDiv1e8(Scalars(1).valueOut, xf[1].raw.outputSatoshis)
        /\ xf[1].raw.outputSatoshis = 100000000 => Scalars(1).valueOut = Whole(1)
        /\ ~xf[1].raw.coinbase =>
              /\ Has(Scalars(1).valueIn)
              /\ IsDiv1e8(Val(Scalars(1).valueIn), xf[1].raw.inputSatoshis)
              /\ Has(Scalars(1).fees)
              /\ IsDiv1e8(Val(Scalars(1).fees), xf[1].raw.feeSatoshis)

C12_Witness ==
    /\ Done(1)
    /\ ~xf[1].raw.coinbase
    /\ xf[1].raw.outputSatoshis = 100000000
    /\ Scalars(1).valueOut = Whole(1)
    /\ Outputs(1)[1].value = <<"1", ".", "0", "0", "0", "0", "0", "0", "0", "0">>

\* C13: nVersionGroupId and nExpiryHeight are there only if fOverwintered;
\* valueBalance, spendDescs, outputDescs and bindingSig only if
\* fOverwintered and version >= 4; vjoinsplit only if version >= 2; and
\* while the enrichment of vout is under way none of them, nor any other
\* field continueTransform sets, is there yet.
C13_VersionGatedFields ==
    /\ xf[1].pc \in {"wave1", "wave2"} => xf[1].transformed.scalars = None
    /\ Done(1) =>
          /\ ~Pending(xf[1].scriptsDecoded)
          /\ ~Pending(xf[1].namesResolved)
          /\ ~Pending(xf[1].newResults)
          /\ Has(Scalars(1).nVersionGroupId) => xf[1].raw.fOverwintered
          /\ Has(Scalars(1).nExpiryHeight) => xf[1].raw.fOverwintered
          /\ (\/ Has(Scalars(1).valueBalance)
              \/ Has(Scalars(1).spendDescs)
              \/ Has(Scalars(1).outputDescs)
              \/ Has(Scalars(1).bindingSig)) =>
                (xf[1].raw.fOverwintered /\ xf[1].raw.version >= 4)
          /\ Has(Scalars(1).vjoinsplit) => xf[1].raw.version >= 2

C13_Witness ==
    /\ Done(1)
    /\ xf[1].raw.fOverwintered
    /\ xf[1].raw.version = 3
    /\ Len(xf[1].scriptsDecoded) = 1
    /\ Has(Scalars(1).nVersionGroupId)
    /\ Has(Scalars(1).vjoinsplit)
    /\ Scalars(1).valueBalance = None

\* The address of a raw output: address, or else the first of addresses.
AddressOf(output) ==
    IF output.address # EmptyString THEN output.address
    ELSE IF output.addresses # None /\ Len(Val(output.addresses)) > 0
         THEN Head(Val(output.addresses))
         ELSE EmptyString

C15_ProtocolAnnotation ==
    xf[1].pc \notin {"idle", "threw"} =>
        \A i \in 1..Len(Outputs(1)) :
            LET address == AddressOf(xf[1].raw.outputs[i])
                v == Outputs(1)[i]
            IN IF address \in PROTOCOL_ADDRESSES_DATA
               THEN /\ v.isProtocolAddress
                    /\ Has(v.protocol)
                    /\ Val(v.protocol).protocolName = ProtocolEntry(address).name
                    /\ Val(v.protocol).protocolDescription
                          = ProtocolEntry(address).description
                    /\ Val(v.protocol).protocolColor = ProtocolEntry(address).color
                    /\ Val(v.protocol).protocolIcon = ProtocolEntry(address).icon
               ELSE /\ ~v.isProtocolAddress
                    /\ v.protocol = None

C15_Witness ==
    /\ Done(1)
    /\ AddressOf(xf[1].raw.outputs[1]) = otherProtocolAddress
    /\ ~Outputs(1)[1].needsScriptDecode
    /\ Has(Outputs(1)[1].protocol)

\* A call that has no function to call back: the options position holds an
\* options object and the callback position no function.
NoCallback(t) == ~xf[t].args.options.isFunction /\ ~xf[t].args.callback

\* C20: a call without a function callback throws having issued no
\* decodeScript and no getIdentity call, and the step that throws leaves
\* identityNameCache as it was; a call with the callback in the options
\* position does not throw and runs with the empty options.
C20_FailsFast ==
    /\ [](/\ (xf[1].pc # "idle" /\ NoCallback(1)) =>
               /\ xf[1].pc = "threw"
               /\ xf[1].resolverCalls = << >>
               /\ xf[1].scriptsToDecodeIndices = << >>
               /\ xf[1].scriptsDecoded = << >>
               /\ xf[1].namesResolved = << >>
               /\ xf[1].callbacks = << >>
          /\ (xf[1].pc # "idle" /\ xf[1].args.options.isFunction) =>
               /\ xf[1].pc # "threw"
               /\ xf[1].options = NoOptions)
    /\ [][(xf'[1] # xf[1] /\ xf'[1].pc = "threw") =>
             identityNameCache' = identityNameCache]_vars

C20_Witness ==
    /\ xf[1].pc = "threw"
    /\ NoCallback(1)
    /\ xf[1].raw.outputs = <<SpentOutput, ImportOutput>>

\* The result without the field groups the options govern.
WithoutOptionFields(transformed) ==
    [transformed EXCEPT
       !.vin = [i \in 1..Len(@) |-> [@[i] EXCEPT !.scriptSig = None]],
       !.vout = [i \in 1..Len(@) |->
                    [@[i] EXCEPT !.spent = None, !.scriptPubKey.asm = None]]]

\* The field groups of transform t are there or not as its options say.
OptionFieldsAsAsked(t) ==
    LET asked == xf[t].args.options
    IN /\ ~xf[t].raw.coinbase =>
             \A i \in 1..Len(xf[t].transformed.vin) :
                LET scriptSig == xf[t].transformed.vin[i].scriptSig
                IN /\ Has(scriptSig) <=> ~asked.noScriptSig
                   /\ Has(scriptSig) => (Has(Val(scriptSig).asm) <=> ~asked.noAsm)
       /\ \A i \in 1..Len(Outputs(t)) :
             /\ Has(Outputs(t)[i].scriptPubKey.asm) <=> ~asked.noAsm
             /\ Has(Outputs(t)[i].spent) <=> ~asked.noSpent

\* C16: with noScriptSig no input carries scriptSig, with noAsm no scriptSig
\* and no scriptPubKey carries asm, with noSpent no output carries the spent
\* fields; with the option unset the group is there (asm of a scriptSig
\* where the scriptSig is, scriptSig on the inputs of a transaction that is
\* not coinbase); and two transforms of one transaction under any two
\* choices of options agree on every other field.
C16_OptionsSuppressTheirFields ==
    /\ \A t \in Slots : Done(t) => OptionFieldsAsAsked(t)
    /\ (Done(1) /\ Done(2)) =>
          WithoutOptionFields(xf[1].transformed)
            = WithoutOptionFields(xf[2].transformed)

C16_Witness ==
    /\ Done(1) /\ Done(2)
    /\ ~xf[1].raw.coinbase
    /\ Len(xf[1].raw.inputs) = 2
    /\ xf[1].raw.outputs = <<SpentOutput, PlainOutput>>
    /\ xf[1].args.options = OptionsArgument(TRUE, TRUE, TRUE)
    /\ xf[2].args.options = OptionsArgument(FALSE, TRUE, FALSE)
    /\ xf[1].transformed.vin[1].scriptSig = None
    /\ Has(xf[2].transformed.vin[1].scriptSig)

\* C17: when the transform has completed, the transaction object it was
\* given, with its inputs, its outputs and the payloads they carry, has the
\* value it had when the call was made.
C17_RawTransactionUnchanged ==
    Done(1) => xf[1].tx = xf[1].raw

\* ------------------------------------------------- claims on the cache

\* A getIdentity lookup of iAddress issued on controller 1 has not been
\* answered yet.
InFlight(iAddress) ==
    \/ \E k \in Callers : calls[k] # None /\ Val(calls[k]).iAddress = iAddress
    \/ \E t \in Slots :
          /\ xf[t].ctl = 1
          /\ \/ /\ xf[t].pc = "wave1"
                /\ \E i \in 1..Len(xf[t].namesResolved) :
                      /\ xf[t].namesResolved[i] = None
                      /\ xf[t].iAddressesToResolve[i] = iAddress
             \/ /\ xf[t].pc = "wave2"
                /\ \E i \in 1..Len(xf[t].newResults) :
                      /\ xf[t].newResults[i] = None
                      /\ xf[t].newAddresses[i] = iAddress

\* C18 as stated: an entry of identityNameCache, once there, is never
\* removed and never changes.
C18_EntryNeverChanges ==
    [][\A a \in Addresses :
          identityNameCache[1][a] # Undefined =>
              identityNameCache'[1][a] = identityNameCache[1][a]]_vars

\* C18 amended: an entry, once there, is never removed, and it changes only
\* in a step that answers a getIdentity lookup of its address that was in
\* flight; while an entry holds a non-empty name and no lookup of its
\* address is in flight, none is issued.
C18_EntryChangesOnlyByLookupInFlight ==
    [][\A a \in Addresses :
          identityNameCache[1][a] # Undefined =>
              /\ identityNameCache'[1][a] # Undefined
              /\ identityNameCache'[1][a] # identityNameCache[1][a] => InFlight(a)
              /\ (Truthy(identityNameCache[1][a]) /\ ~InFlight(a)) => ~InFlight(a)']_vars

C18_Witness ==
    /\ identityNameCache[1][iAAA] = alice
    /\ ~InFlight(iAAA)
    /\ \E t \in Slots :
          /\ Done(t)
          /\ xf[t].resolverCalls[1] = [wave |-> 1, iAddress |-> iAAA, issued |-> FALSE]
          /\ ResolvedName(t, iAAA) = alice

\* ----------------------------------------------- claims on the handler

\* C19: when getDetailedTransaction fails, the transaction is not
\* transformed, next is not called, and common.handleErrors is handed null
\* for code -5 and the error itself for any other; when it succeeds,
\* nothing is handed to common.handleErrors, whatever lookups and decodes
\* fail, and next is called once the transform has completed.
C19_OnlyFetchErrorSurfaced ==
    /\ req.pc = "errored" =>
          /\ xf[1].pc = "idle"
          /\ NextCalls = 0
          /\ TransformErrorsHandled = << >>
          /\ req.handleErrors =
                << IF Val(req.response.err).code = -5
                   THEN None ELSE req.response.err >>
    /\ req.pc = "transforming" =>
          /\ req.handleErrors = << >>
          /\ TransformErrorsHandled = << >>
          /\ NextCalls = (IF Done(1) THEN 1 ELSE 0)
    /\ req.pc = "fetching" => (xf[1].pc = "idle" /\ NextCalls = 0)

C19_Witness ==
    /\ req.pc = "errored"
    /\ Val(req.response.err).code = -5
    /\ req.handleErrors = <<None>>
    /\ xf[1].pc = "idle"


\* ---------------------------------------------------- claims on the waves

\* A friendly-name field of the output has been written.
FriendlyWritten(v) ==
    \/ Has(v.crosschainimport) /\ Has(Val(v.crosschainimport).valueinFriendly)
    \/ Has(v.feepool) /\ Has(Val(v.feepool).currencyvaluesFriendly)
    \/ Has(v.acceptednotarization)
         /\ Val(v.acceptednotarization).currencyNameFriendly # EmptyString

\* The second wave has been decided on: its addresses are drawn or the
\* merge pass has run.
Wave2Evaluated(t) ==
    \/ xf[t].pc \in {"wave2", "done"}
    \/ xf[t].newAddresses # << >>
    \/ \E n \in 1..Len(xf[t].resolverCalls) : xf[t].resolverCalls[n].wave = 2

\* C21: the second wave is decided on only when every decode and every
\* resolution of the first wave has completed; no friendly-name field of any
\* output is written while a resolution of either wave is outstanding; and
\* the mapping the merge pass read holds every address collected in the two
\* waves.
C21_WavesInOrder ==
    \A t \in Slots :
        /\ Wave2Evaluated(t) => Wave1Complete(xf[t])
        /\ (\E i \in 1..Len(Outputs(t)) : FriendlyWritten(Outputs(t)[i]))
              => /\ Done(t)
                 /\ ~Pending(xf[t].namesResolved)
                 /\ ~Pending(xf[t].newResults)
        /\ Done(t) =>
              /\ Len(xf[t].namesResolved) = Len(xf[t].iAddressesToResolve)
              /\ \A i \in 1..Len(xf[t].iAddressesToResolve) :
                    HasKey(xf[t].nameMapping, xf[t].iAddressesToResolve[i])

\* The second wave is half answered: one resolution has come back, another
\* is outstanding, and the decoded fee pool is attached to its output.
C21_Witness ==
    /\ xf[1].pc = "wave2"
    /\ \E i, j \in 1..Len(xf[1].newResults) :
          xf[1].newResults[i] # None /\ xf[1].newResults[j] = None
    /\ \E i \in 1..Len(Outputs(1)) : Has(Outputs(1)[i].feepool)


\* The identity addresses the decode answers of transform t reveal: the keys
\* of a fee pool decoded for a fee-pool output and the currencyid of a
\* notarization decoded for a notarization output, when they start with "i"
\* and were not passed to the resolver in the first wave.
DecodedAddresses(t) ==
    UNION { LET r == xf[t].decodeAnswers[n][2]
                type == Outputs(t)[xf[t].decodeAnswers[n][1] + 1].scriptDecodeType
                d == Val(r.result)
                ok == ~r.err /\ Has(r.result)
            IN (IF ok /\ type = "feepool" /\ Has(d.feepool)
                      /\ Has(Val(d.feepool).currencyvalues)
                THEN {Keys(Val(Val(d.feepool).currencyvalues))[i] :
                        i \in 1..Len(Val(Val(d.feepool).currencyvalues))}
                ELSE {})
               \cup
               (IF ok /\ type = "acceptednotarization" /\ Has(d.acceptednotarization)
                THEN {Val(d.acceptednotarization).currencyid}
                ELSE {})
          : n \in 1..Len(xf[t].decodeAnswers) }

Revealed(t) ==
    {a \in DecodedAddresses(t) :
        StartsWith(a, <<"i">>) /\ a \notin WaveAddresses(t, 1)}

\* C22: once the first wave has completed, the resolver has been called
\* after it exactly when the decode answers revealed an identity address
\* that the first wave did not resolve, and then for those addresses; with
\* none revealed the transform is done, never waiting on a second wave.
C22_SecondWaveIffRevealed ==
    \A t \in Slots :
        /\ xf[t].pc = "wave1" => WaveAddresses(t, 2) = {}
        /\ xf[t].pc \in {"wave2", "done"} =>
              /\ WaveAddresses(t, 2) # {} <=> Revealed(t) # {}
              /\ WaveAddresses(t, 2) = Revealed(t)
        /\ xf[t].pc = "wave2" => Revealed(t) # {}

\* A transform is done whose decode revealed one address the first wave
\* had resolved and one it had not, the latter resolved in a second wave.
C22_Witness ==
    /\ Done(1)
    /\ DecodedAddresses(1) \cap WaveAddresses(1, 1) # {}
    /\ WaveAddresses(1, 2) # {}


\* ---------------------------------------------- claims on response order

AnswerKeys(answers) == {answers[i][1] : i \in 1..Len(answers)}

\* The services gave the two transforms the same answers, whatever the
\* order the answers came in.
SameAnswers(x1, x2) ==
    /\ AnswerKeys(x1.idAnswers) = AnswerKeys(x2.idAnswers)
    /\ AnswerKeys(x1.decodeAnswers) = AnswerKeys(x2.decodeAnswers)
    /\ Differing(x1.idAnswers, x2.idAnswers) = {}
    /\ Differing(x1.decodeAnswers, x2.decodeAnswers) = {}

\* The calls of transform t that have no answer yet: flagged outputs and
\* addresses.
AwaitedDecodes(t) ==
    {xf[t].scriptsToDecodeIndices[j] :
        j \in {n \in 1..Len(xf[t].scriptsDecoded) : xf[t].scriptsDecoded[n] = None}}

AwaitedLookups(t) ==
    {xf[t].iAddressesToResolve[i] :
        i \in {n \in 1..Len(xf[t].namesResolved) : xf[t].namesResolved[n] = None}}
    \cup {xf[t].newAddresses[i] :
        i \in {n \in 1..Len(xf[t].newResults) : xf[t].newResults[n] = None}}

\* C23: a transform given, in any order, the answers the identity and
\* decode services gave to an earlier transform of the same transaction
\* makes no call the earlier one did not make, and once done has been given
\* all of its answers and hands its callback the same transformed result.
C23_OrderIrrelevant ==
    /\ Waiting(2) =>
          /\ AwaitedDecodes(2) \subseteq AnswerKeys(xf[1].decodeAnswers)
          /\ AwaitedLookups(2) \subseteq AnswerKeys(xf[1].idAnswers)
    /\ (Done(1) /\ Done(2)) =>
          /\ SameAnswers(xf[1], xf[2])
          /\ xf[1].transformed = xf[2].transformed
          /\ xf[1].callbacks = xf[2].callbacks

\* Both transforms are done on the same answers, the lookups and the decodes
\* having been answered in one order in the first and another in the second.
C23_Witness ==
    /\ Done(1) /\ Done(2) /\ SameAnswers(xf[1], xf[2])
    /\ Keys(xf[1].idAnswers) # Keys(xf[2].idAnswers)
    /\ Keys(xf[1].decodeAnswers) # Keys(xf[2].decodeAnswers)
    /\ \E a, b \in AnswerKeys(xf[1].idAnswers) :
          Get(xf[1].idAnswers, a) # Get(xf[1].idAnswers, b)


\* ------------------------------------------------- claims on termination

\* The merge pass has run over the outputs of transform t.
Merged(t) ==
    \A i \in 1..Len(Outputs(t)) :
       LET v == Outputs(t)[i]
       IN /\ (Has(v.crosschainimport) /\ Has(Val(v.crosschainimport).valuein))
                => Has(Val(v.crosschainimport).valueinFriendly)
          /\ (Has(v.feepool) /\ Has(Val(v.feepool).currencyvalues))
                => Has(Val(v.feepool).currencyvaluesFriendly)
          /\ (Has(v.acceptednotarization)
                /\ Val(v.acceptednotarization).currencyid # EmptyString)
                => Val(v.acceptednotarization).currencyNameFriendly # EmptyString

\* C24: when every decodeScript and getIdentity call issued is answered in
\* the end, a transform that waits on such calls reaches its callback, and
\* the callback runs only once the merge pass has run.
C24_CallbackReached ==
    /\ Waiting(1) ~> Done(1)
    /\ [](Done(1) => (xf[1].callbacks # << >> /\ Merged(1)))
    /\ [](Waiting(1) => xf[1].callbacks = << >>)

\* The callback of a transform has run after decodes and lookups of both
\* waves were issued and answered.
C24_Witness ==
    /\ Done(1)
    /\ xf[1].callbacks # << >>
    /\ xf[1].decodeAnswers # << >>
    /\ \E n \in 1..Len(xf[1].resolverCalls) :
          xf[1].resolverCalls[n].wave = 1 /\ xf[1].resolverCalls[n].issued
    /\ \E n \in 1..Len(xf[1].resolverCalls) :
          xf[1].resolverCalls[n].wave = 2 /\ xf[1].resolverCalls[n].issued


\* A decodeScript or getIdentity call of transform t has no answer yet.
Outstanding(t) ==
    \/ Pending(xf[t].scriptsDecoded)
    \/ Pending(xf[t].namesResolved)
    \/ Pending(xf[t].newResults)

\* C25: a transform with a call that has no answer has not called back,
\* however long the answer is missing, and it holds nothing back: whatever
\* it waits for, the answers to every other waiting transform can be taken.
C25_HungCallStallsItsTransformOnly ==
    \A t \in Slots :
        /\ Outstanding(t) => (Waiting(t) /\ xf[t].callbacks = << >>)
        /\ Waiting(t) => (Outstanding(t) /\ ENABLED AnsweredTo(t))

\* The first transform has had no answer to any of its calls; the second,
\* called after it, has had its decode and lookups answered and is done.
C25_Witness ==
    /\ Waiting(1) /\ Outstanding(1)
    /\ xf[1].idAnswers = << >> /\ xf[1].decodeAnswers = << >>
    /\ Done(2) /\ xf[2].callbacks # << >>
    /\ xf[2].idAnswers # << >> /\ xf[2].decodeAnswers # << >>


\* -------------------------------------------- claims on the resolver calls

\* The output mentions the address: as a key of its valuein, as a key of
\* its decoded fee pool, or as the currencyid of its decoded notarization.
Mentions(v, a) ==
    \/ /\ Has(v.crosschainimport) /\ Has(Val(v.crosschainimport).valuein)
       /\ HasKey(Val(Val(v.crosschainimport).valuein), a)
    \/ /\ Has(v.feepool) /\ Has(Val(v.feepool).currencyvalues)
       /\ HasKey(Val(Val(v.feepool).currencyvalues), a)
    \/ /\ Has(v.acceptednotarization)
       /\ Val(v.acceptednotarization).currencyid = a

\* C26: in one transformTransaction call no address is passed to the
\* resolver twice, in either wave or across them, and every address passed
\* starts with "i".
C26_OneCallPerIdentityAddress ==
    \A t \in Slots :
       \A m, n \in 1..Len(xf[t].resolverCalls) :
          /\ m # n => xf[t].resolverCalls[m].iAddress # xf[t].resolverCalls[n].iAddress
          /\ StartsWith(xf[t].resolverCalls[n].iAddress, <<"i">>)

\* A transform is done in which two outputs mention iAAA, resolved once,
\* and one of them a key that is no identity address, never resolved.
C26_Witness ==
    /\ Done(1)
    /\ \E i, j \in 1..Len(Outputs(1)) :
          i # j /\ Mentions(Outputs(1)[i], iAAA) /\ Mentions(Outputs(1)[j], iAAA)
    /\ \E i \in 1..Len(Outputs(1)) : Mentions(Outputs(1)[i], plainAddress)
    /\ Cardinality({n \in 1..Len(xf[1].resolverCalls) :
                       xf[1].resolverCalls[n].iAddress = iAAA}) = 1
    /\ \A n \in 1..Len(xf[1].resolverCalls) :
          xf[1].resolverCalls[n].iAddress # plainAddress


\* ------------------------------------------------- claims on cache writes

\* C27: in the step in which getIdentity answers a lookup without error,
\* the cache entry of the address is, as the resolver's callback runs, the
\* very name the callback is handed.
C27_CacheHoldsNameHandedBack ==
    [][\A k \in Callers :
          (calls[k] # None /\ calls'[k] = None /\ ~last'.identity.err)
             => /\ last'.iAddress = Val(calls[k]).iAddress
                /\ last'.issued
                /\ identityNameCache'[1][last'.iAddress] = last'.name]_vars

\* A lookup was answered without any name field: the callback was handed
\* the address, and the cache holds the address as its name.
C27_Witness ==
    /\ last.done /\ last.issued
    /\ last.identity = IdentityResponse(FALSE, EmptyString, EmptyString)
    /\ last.name = last.iAddress
    /\ identityNameCache[1][last.iAddress] = last.iAddress


\* --------------------------------------------- claims on the notarization

\* The resolver handed transform t a name for the address from a getIdentity
\* answer without error, or from the cache.
ResolutionSucceeded(t, a) ==
    /\ WasResolved(t, a)
    /\ ~(HasKey(xf[t].idAnswers, a) /\ Get(xf[t].idAnswers, a).err)

\* The outputs of transform t with a decoded notarization and a currencyid.
Notarized(t) ==
    {i \in 1..Len(Outputs(t)) :
        /\ Has(Outputs(t)[i].acceptednotarization)
        /\ Val(Outputs(t)[i].acceptednotarization).currencyid # EmptyString}

CurrencyId(t, i) == Val(Outputs(t)[i].acceptednotarization).currencyid

CurrencyNameFriendly(t, i) ==
    Val(Outputs(t)[i].acceptednotarization).currencyNameFriendly

\* C28 as stated: after the transform, currencyNameFriendly of a decoded
\* notarization is the name its currencyid resolved to when the currencyid
\* is an identity address whose resolution succeeded, and the currencyid
\* otherwise.
C28_CurrencyNameIsResolvedName ==
    Done(1) =>
        \A i \in Notarized(1) :
            CurrencyNameFriendly(1, i) =
                IF StartsWith(CurrencyId(1, i), <<"i">>)
                   /\ ResolutionSucceeded(1, CurrencyId(1, i))
                THEN ResolvedName(1, CurrencyId(1, i))
                ELSE CurrencyId(1, i)

\* C28 amended: as C28, the currencyid also standing in when the name its
\* resolution succeeded with is the empty string.
C28_CurrencyNameIsResolvedNameOrId ==
    Done(1) =>
        \A i \in Notarized(1) :
            CurrencyNameFriendly(1, i) =
                IF StartsWith(CurrencyId(1, i), <<"i">>)
                   /\ ResolutionSucceeded(1, CurrencyId(1, i))
                   /\ ResolvedName(1, CurrencyId(1, i)) # EmptyString
                THEN ResolvedName(1, CurrencyId(1, i))
                ELSE CurrencyId(1, i)

\* A notarization of iAAA is shown under the name alice, which the second
\* wave resolved.
C28_Witness ==
    /\ Done(1)
    /\ \E i \in Notarized(1) :
          /\ CurrencyId(1, i) = iAAA
          /\ iAAA \in WaveAddresses(1, 2)
          /\ ResolutionSucceeded(1, iAAA)
          /\ CurrencyNameFriendly(1, i) = alice


\* ------------------------------------------- claims on decoded structures

\* The decoded structures the output carries.
Carried(v) ==
    (IF Has(v.feepool) THEN {"feepool"} ELSE {})
    \cup (IF Has(v.acceptednotarization) THEN {"acceptednotarization"} ELSE {})
    \cup (IF v.p2shAddress # "" THEN {"opreturn"} ELSE {})

\* C29: an output is flagged for decode exactly when it declares one of the
\* three decode types; the decoded structures it carries are none or the one
\* of its declared type; and isP2SH is set exactly when p2shAddress is.
C29_OneStructureOfDeclaredType ==
    \A t \in Slots : \A i \in 1..Len(Outputs(t)) :
        LET v == Outputs(t)[i]
        IN /\ v.scriptDecodeType \in {"", "feepool", "acceptednotarization", "opreturn"}
           /\ v.needsScriptDecode <=> v.scriptDecodeType # ""
           /\ Carried(v) \subseteq {v.scriptDecodeType}
           /\ v.isP2SH <=> v.p2shAddress # ""

\* A fee-pool output and an OP_RETURN output whose decodes both answered
\* with a fee pool, a notarization and a P2SH address: the first carries
\* the fee pool alone, the second the P2SH address alone.
C29_Witness ==
    /\ Done(1)
    /\ \A n \in 1..Len(xf[1].decodeAnswers) :
          xf[1].decodeAnswers[n][2] = DecodeResponse(FALSE, Some(FullResult))
    /\ \E i, j \in 1..Len(Outputs(1)) :
          /\ Carried(Outputs(1)[i]) = {"feepool"}
          /\ Carried(Outputs(1)[j]) = {"opreturn"}
          /\ Outputs(1)[j].isP2SH


\* C30: after the transform, valueinFriendly has as many entries as valuein
\* and currencyvaluesFriendly as many as feepool.currencyvalues, in every
\* output that carries them.
C30_FriendlyMappingsParallel ==
    Done(1) =>
        \A i \in 1..Len(Outputs(1)) :
            LET v == Outputs(1)[i]
            IN /\ (Has(v.crosschainimport) /\ Has(Val(v.crosschainimport).valuein))
                     => Len(Val(Val(v.crosschainimport).valueinFriendly))
                           = Len(Val(Val(v.crosschainimport).valuein))
               /\ (Has(v.feepool) /\ Has(Val(v.feepool).currencyvalues))
                     => Len(Val(Val(v.feepool).currencyvaluesFriendly))
                           = Len(Val(Val(v.feepool).currencyvalues))


\* ------------------------------------------- claims on overlapping lookups

\* The getIdentity lookups of the address that are in flight on controller
\* 1: direct callers and first-wave positions of transforms.
LookupsInFlight(a) ==
    {<<"call", k>> : k \in {n \in Callers :
        calls[n] # None /\ Val(calls[n]).iAddress = a}}
    \cup {<<"transform", t>> : t \in {n \in Slots :
        /\ xf[n].ctl = 1 /\ xf[n].pc = "wave1"
        /\ \E i \in 1..Len(xf[n].namesResolved) :
              xf[n].namesResolved[i] = None /\ xf[n].iAddressesToResolve[i] = a}}

\* The resolutions of the address that begin in this step: a direct call,
\* or a transform whose valuein names the address.
ResolutionsBegun(a) ==
    {<<"call", k>> : k \in {n \in Callers :
        /\ nCalls' = nCalls + 1
        /\ \/ calls[n] = None /\ calls'[n] # None /\ Val(calls'[n]).iAddress = a
           \/ calls' = calls /\ n = 1 /\ last'.iAddress = a /\ ~last'.issued}}
    \cup {<<"transform", t>> : t \in {n \in Slots :
        /\ xf[n].pc = "idle" /\ xf'[n].pc # "idle"
        /\ Contains(xf'[n].iAddressesToResolve, a)}}

\* The answers getIdentity gives in this step to lookups of the address:
\* whether it is an error, and the name the resolver hands on.
AnswersTaken(a) ==
    {[err |-> last'.identity.err, name |-> last'.name] :
        k \in {n \in Callers :
            calls[n] # None /\ calls'[n] = None /\ Val(calls[n]).iAddress = a}}
    \cup UNION {
        {[err |-> Get(xf'[t].idAnswers, a).err,
          name |-> Val(xf'[t].namesResolved[i]).friendlyName] :
            i \in {n \in 1..Len(xf[t].namesResolved) :
                /\ xf[t].pc = "wave1"
                /\ xf[t].namesResolved[n] = None
                /\ xf[t].iAddressesToResolve[n] = a
                /\ xf'[t].namesResolved[n] # None}}
        : t \in Slots}

\* C31: a resolution that begins while the entry of its address holds no
\* name issues a lookup of its own, whatever lookups of that address are in
\* flight; an answer without error writes its name into the entry, an
\* answer with an error leaves the entry, and nothing else changes it, so
\* the entry holds the name of the latest answer without error.
C31_OverlappingLookupsLastWins ==
    [][\A a \in Addresses :
          /\ (ResolutionsBegun(a) # {} /\ ~Truthy(identityNameCache[1][a]))
                => /\ LookupsInFlight(a)' # LookupsInFlight(a)
                   /\ LookupsInFlight(a) \subseteq LookupsInFlight(a)'
          /\ \A r \in AnswersTaken(a) :
                identityNameCache'[1][a] =
                    IF r.err THEN identityNameCache[1][a] ELSE r.name
          /\ identityNameCache'[1][a] # identityNameCache[1][a]
                => \E r \in AnswersTaken(a) : ~r.err]_vars

\* Two transforms each issued a lookup of iAAA, which therefore overlapped;
\* the one answered alice, the other the empty name, and the entry holds the
\* empty name, which arrived last.
C31_Witness ==
    /\ nCalls = 0
    /\ Done(1) /\ Done(2)
    /\ \A t \in Slots :
          xf[t].resolverCalls[1] = [wave |-> 1, iAddress |-> iAAA, issued |-> TRUE]
    /\ ResolvedName(1, iAAA) = alice
    /\ ResolvedName(2, iAAA) = EmptyString
    /\ identityNameCache[1][iAAA] = EmptyString


\* ------------------------------------------------------- address routes

\* addresses.js lines 20-31: the addresses of blocked.json.
blockedAddress == <<"R", "B", "l", "o", "c", "k">>

blockedAddresses == <<blockedAddress>>

\* addresses.js lines 33-44: the keys of the protocol-address registry.
protocolAddresses == <<FeePoolAddress, NotarizationAddress, otherProtocolAddress>>

\* addresses.js lines 47-49.
isBlocked(address) ==
    Contains(blockedAddresses, address) \/ Contains(protocolAddresses, address)

\* addresses.js line 247: the strings new bitcore.Address accepts.
badAddress == <<"b", "a", "d">>

BitcoreAddresses ==
    {plainAddress, iAAA, iBBB, blockedAddress, FeePoolAddress, NotarizationAddress,
     otherProtocolAddress}

COMMA == <<",">>

\* String.prototype.split(',').
RECURSIVE Split(_)
Split(s) ==
    IF \E i \in 1..Len(s) : <<s[i]>> = COMMA
    THEN LET i == CHOOSE k \in 1..Len(s) :
                    /\ <<s[k]>> = COMMA
                    /\ \A j \in 1..(k - 1) : <<s[j]>> # COMMA
         IN <<SubSeq(s, 1, i - 1)>> \o Split(SubSeq(s, i + 1, Len(s)))
    ELSE <<s>>

\* What a handler has done with a request: answered it, with the status
\* given to res.status (200 when none is given) and the kind of body, or
\* asked the node and is waiting.
RequestAnswered(route, addresses, status, answer) ==
    [pc |-> "answered", route |-> route, addresses |-> addresses,
     status |-> status, answer |-> answer]

NodeAsked(route, addresses) ==
    [pc |-> "asked", route |-> route, addresses |-> addresses,
     status |-> 0, answer |-> ""]

\* The address queries of the node, one record for each address asked about.
Queries(method, addresses) ==
    { [method |-> method, address |-> addresses[i]] : i \in 1..Len(addresses) }

\* addresses.js lines 228-258: check answers the request itself ("stop") or
\* calls next.
check(addresses) ==
    IF Len(addresses) = 0 \/ ~Truthy(addresses[1])
    THEN "handleErrors: Must include address"
    ELSE IF \E i \in 1..Len(addresses) :
               isBlocked(addresses[i]) \/ addresses[i] \notin BitcoreAddresses
    THEN LET i == CHOOSE k \in 1..Len(addresses) :
                    /\ isBlocked(addresses[k]) \/ addresses[k] \notin BitcoreAddresses
                    /\ \A j \in 1..(k - 1) :
                          ~isBlocked(addresses[j]) /\ addresses[j] \in BitcoreAddresses
         IN IF isBlocked(addresses[i]) THEN "blocked" ELSE "handleErrors: Invalid address"
    ELSE "next"

\* What check answers when it does not call next: res.status(400) for a
\* blocked address (line 241), common.handleErrors otherwise.
CheckAnswer(route, addresses) ==
    IF check(addresses) = "blocked"
    THEN RequestAnswered(route, addresses, 400, "This address cannot be queried")
    ELSE RequestAnswered(route, addresses, 0, check(addresses))

\* The handlers behind checkAddr (index.js lines 256-257, 264-267) and the
\* node method each calls.
AddrRoutes ==
    {"show", "utxo", "balance", "totalReceived", "totalSent", "unconfirmedBalance"}

\* The handlers behind checkAddrs (index.js lines 258-261).
AddrsRoutes == {"multiutxo", "multitxs"}

NodeMethod(route) ==
    CASE route = "utxo" -> "getAddressUnspentOutputs"
      [] route = "multiutxo" -> "getAddressUnspentOutputs"
      [] route = "multitxs" -> "getAddressHistory"
      [] route = "list" -> "getAddressHistory"
      [] OTHER -> "getAddressSummary"

\* addresses.js lines 57-79 and 151-159: show and addressSummarySubQuery
\* answer a blocked address themselves; utxo, multiutxo and multitxs
\* (lines 260-283, 317-344) ask the node at once.
Handler(route, addresses) ==
    IF route = "show" /\ isBlocked(addresses[1])
    THEN RequestAnswered(route, addresses, 200, "zeroed summary")
    ELSE IF route \in {"balance", "totalReceived", "totalSent", "unconfirmedBalance"}
            /\ isBlocked(addresses[1])
    THEN RequestAnswered(route, addresses, 200, "0")
    ELSE NodeAsked(route, addresses)

\* A request is served: the record of it, and the node queries it adds.
Serve(served) ==
    /\ addressRequest' = served
    /\ nodeQueries' = IF served.pc = "asked"
                      THEN nodeQueries \cup Queries(NodeMethod(served.route), served.addresses)
                      ELSE nodeQueries

\* index.js lines 256-257, 264-267 with addresses.js lines 211-214: a
\* request for one address passes checkAddr and then its handler.
AddrRequest(route, addr, limit) ==
    /\ addressRequest.pc # "asked"
    /\ nRequests < limit
    /\ nRequests' = nRequests + 1
    /\ Serve(IF check(<<addr>>) = "next"
             THEN Handler(route, <<addr>>)
             ELSE CheckAnswer(route, <<addr>>))
    /\ UNCHANGED <<coreVars, subscriptionVars, listVars, currencyVars>>

\* index.js lines 258-261 with addresses.js lines 216-226: a request for
\* several addresses, given in the body or else in the path, passes
\* checkAddrs and then its handler.
AddrsRequest(route, bodyAddrs, paramsAddrs, limit) ==
    /\ addressRequest.pc # "asked"
    /\ nRequests < limit
    /\ nRequests' = nRequests + 1
    /\ Truthy(bodyAddrs) \/ paramsAddrs # Undefined
    /\ LET addrs == IF Truthy(bodyAddrs) THEN Split(bodyAddrs) ELSE Split(paramsAddrs)
       IN Serve(IF check(addrs) = "next"
                THEN Handler(route, addrs)
                ELSE CheckAnswer(route, addrs))
    /\ UNCHANGED <<coreVars, subscriptionVars, listVars, currencyVars>>

\* index.js line 243 with transactions.js lines 615-622 and 662-697: GET /txs
\* without a block hash. No middleware stands before list.
ListByAddress(address, limit) ==
    /\ addressRequest.pc # "asked"
    /\ nRequests < limit
    /\ nRequests' = nRequests + 1
    /\ Serve(IF Truthy(address)
             THEN NodeAsked("list", <<address>>)
             ELSE RequestAnswered("list", << >>, 0, "handleErrors: Block hash or address expected"))
    /\ UNCHANGED <<coreVars, subscriptionVars, listVars, currencyVars>>

\* The node answers the query of the request being served, with an error
\* (and its code) or a result, which may be empty; the handler's callback
\* answers the request (addresses.js lines 161-167, 263-269, 274-282,
\* 326-343; transactions.js lines 668-693).
NodeAnswer(err, code, empty) ==
    /\ addressRequest.pc = "asked"
    /\ LET route == addressRequest.route
           answer == IF route = "multiutxo" /\ err /\ code = -5 THEN "[]"
                     ELSE IF err THEN "handleErrors: node"
                     ELSE IF route = "utxo" /\ empty THEN "[]"
                     ELSE "result"
       IN addressRequest' = RequestAnswered(route, addressRequest.addresses,
                                     IF answer = "handleErrors: node" THEN 0 ELSE 200,
                                     answer)
    /\ UNCHANGED <<nodeQueries, nRequests>>
    /\ UNCHANGED <<coreVars, subscriptionVars, listVars, currencyVars>>

\* The addresses requests name, and the addrs strings of the requests for
\* several.
RequestAddresses ==
    {plainAddress, iAAA, blockedAddress, FeePoolAddress, badAddress}

AddrsLists ==
    { <<plainAddress>>, <<blockedAddress>>, <<plainAddress, iAAA>>,
      <<plainAddress, blockedAddress>>, <<plainAddress, otherProtocolAddress>>,
      <<badAddress, blockedAddress>>, <<plainAddress, badAddress>>,
      <<EmptyString, plainAddress>>, <<plainAddress, EmptyString>>, <<EmptyString>> }

MaxRequests == 2

AddressNext ==
    \/ \E route \in AddrRoutes, addr \in RequestAddresses :
          AddrRequest(route, addr, MaxRequests)
    \/ \E route \in AddrsRoutes, list \in AddrsLists, inBody \in BOOLEAN :
          AddrsRequest(route, IF inBody THEN Join(list) ELSE Undefined,
                       IF inBody THEN Undefined ELSE Join(list), MaxRequests)
    \/ \E address \in RequestAddresses \cup {EmptyString} :
          ListByAddress(address, MaxRequests)
    \/ \E err \in BOOLEAN, code \in {-5, -1}, empty \in BOOLEAN :
          NodeAnswer(err, code, empty)

SpecAddress == Init /\ [][AddressNext]_vars

\* The request being served, or served last, named a blocked address.
NamesBlocked ==
    \E i \in 1..Len(addressRequest.addresses) : isBlocked(addressRequest.addresses[i])

\* C32: no route asks the node (getAddressSummary, getAddressUnspentOutputs,
\* getAddressHistory) about an address of the blocked list or of the
\* protocol-address registry; such a request is answered with 400, with the
\* zeroed summary or with 0, and the node is not asked.
C32_NoNodeQueryForBlockedAddress ==
    /\ \A q \in nodeQueries : ~isBlocked(q.address)
    /\ (addressRequest.pc # "idle" /\ NamesBlocked) => addressRequest.pc = "answered"


\* C33: a transaction with height >= 0 is transformed with confirmations of
\* at least 1 and with a blocktime equal to time, whatever chain height the
\* node reports when transformTransaction is called.
C33_MinedHasConfirmationsAndBlocktime ==
    (Done(1) /\ xf[1].raw.height >= 0) =>
        /\ Scalars(1).confirmations >= 1
        /\ Scalars(1).blocktime = Some(Scalars(1).time)


\* ---------------------------------------------------------- subscriptions

\* index.js lines 385 and 395: an argument that is no EventEmitter makes
\* checkArgument throw.
notAnEmitter == "notAnEmitter"

\* index.js lines 387-391: the list subscribe leaves in subscriptions.inv.
subscribeAlwaysPushes(emitters, emitter) == Append(emitters, emitter)

subscribe(emitters, emitter) ==
    IF Contains(emitters, emitter) THEN emitters ELSE Append(emitters, emitter)

\* index.js lines 397-401: splice(index, 1) at the first occurrence.
unsubscribe(emitters, emitter) ==
    IF Contains(emitters, emitter)
    THEN LET index == CHOOSE i \in 1..Len(emitters) :
                         /\ emitters[i] = emitter
                         /\ \A j \in 1..(i - 1) : emitters[j] # emitter
         IN SubSeq(emitters, 1, index - 1) \o SubSeq(emitters, index + 1, Len(emitters))
    ELSE emitters

HexDigit(d) ==
    <<"0", "1", "2", "3", "4", "5", "6", "7", "8", "9", "a", "b", "c", "d", "e", "f">>[d + 1]

\* Buffer.prototype.toString('hex') of a buffer given as its bytes.
RECURSIVE ToHex(_)
ToHex(bytes) ==
    IF bytes = << >> THEN EmptyString
    ELSE <<HexDigit(bytes[1] \div 16), HexDigit(bytes[1] % 16)>> \o ToHex(Tail(bytes))

\* One call of emitter.emit(event, data).
Emit(emitter, event, data) == [emitter |-> emitter, event |-> event, data |-> data]

\* index.js lines 362-367: the emit calls of blockEventHandler, in order.
blockEventHandler(emitters, hashBuffer) ==
    [i \in 1..Len(emitters) |-> Emit(emitters[i], "block", ToHex(hashBuffer))]

\* A transaction as bitcore parses it. An output has satoshis and, when it
\* has a script, the address the script pays to, if any; an input has its
\* sequenceNumber, held as the distance MAXINT - sequenceNumber.
InvOutput(satoshis, script) == [satoshis |-> satoshis, script |-> script]

InvTransaction(hash, belowMaxint, outputs) ==
    [hash |-> hash, inputs |-> [i \in 1..Len(belowMaxint) |-> [belowMaxint |-> belowMaxint[i]]],
     outputs |-> outputs]

RECURSIVE SumSatoshis(_)
SumSatoshis(outputs) ==
    IF outputs = << >> THEN 0 ELSE outputs[1].satoshis + SumSatoshis(Tail(outputs))

\* transactions.js lines 460-490.
transformInvTransaction(transaction) ==
    LET paid == SelectSeq(transaction.outputs,
                          LAMBDA output : Has(output.script) /\ Has(Val(output.script)))
    IN [txid |-> transaction.hash,
        valueOut |-> Div1e8(SumSatoshis(transaction.outputs)),
        vout |-> [i \in 1..Len(paid) |-> <<Val(Val(paid[i].script)), paid[i].satoshis>>],
        isRBF |-> \E i \in 1..Len(transaction.inputs) :
                      transaction.inputs[i].belowMaxint > 1]

\* index.js line 373: the transaction the buffer
\* 0400008085202f89000000000000000000000000000000000000000000 decodes to.
FallbackTransaction == InvTransaction("fallback", << >>, << >>)

\* A buffer from the node: malformed, or the encoding of a transaction.
TxBuffer(malformed, transaction) == [malformed |-> malformed, transaction |-> transaction]

\* index.js lines 368-382: the emit calls of transactionEventHandler.
transactionEventHandler(emitters, txBuffer) ==
    LET tx == IF txBuffer.malformed THEN FallbackTransaction ELSE txBuffer.transaction
    IN [i \in 1..Len(emitters) |-> Emit(emitters[i], "tx", transformInvTransaction(tx))]

\* index.js lines 384-392.
Subscribe(emitter) ==
    /\ IF emitter \in Emitters
       THEN /\ inv' = subscribe(inv, emitter)
            /\ invCalls' = [latest |-> [invCalls.latest EXCEPT ![emitter] = "subscribe"],
                            threw |-> FALSE]
       ELSE /\ invCalls' = [invCalls EXCEPT !.threw = TRUE]
            /\ UNCHANGED inv
    /\ UNCHANGED <<emitted, coreVars, addressVars, listVars, currencyVars>>

\* index.js lines 394-402.
Unsubscribe(emitter) ==
    /\ IF emitter \in Emitters
       THEN /\ inv' = unsubscribe(inv, emitter)
            /\ invCalls' = [latest |-> [invCalls.latest EXCEPT ![emitter] = "unsubscribe"],
                            threw |-> FALSE]
       ELSE /\ invCalls' = [invCalls EXCEPT !.threw = TRUE]
            /\ UNCHANGED inv
    /\ UNCHANGED <<emitted, coreVars, addressVars, listVars, currencyVars>>

BlockEvent(hashBuffer) ==
    /\ emitted' = blockEventHandler(inv, hashBuffer)
    /\ UNCHANGED <<inv, invCalls, coreVars, addressVars, listVars, currencyVars>>

TransactionEvent(txBuffer) ==
    /\ emitted' = transactionEventHandler(inv, txBuffer)
    /\ UNCHANGED <<inv, invCalls, coreVars, addressVars, listVars, currencyVars>>

SampleHashBuffers == { <<0, 171>>, <<255, 16, 9>> }

SampleTxBuffers ==
    { TxBuffer(TRUE, FallbackTransaction),
      TxBuffer(FALSE, InvTransaction("tx1", <<0, 1>>,
                  <<InvOutput(150000000, Some(Some(plainAddress))),
                    InvOutput(0, None),
                    InvOutput(50000000, Some(None))>>)),
      TxBuffer(FALSE, InvTransaction("tx2", <<2>>,
                  <<InvOutput(1, Some(Some(iAAA)))>>)) }

SubscriptionsNext ==
    \/ \E emitter \in Emitters \cup {notAnEmitter} : Subscribe(emitter)
    \/ \E emitter \in Emitters \cup {notAnEmitter} : Unsubscribe(emitter)
    \/ \E hashBuffer \in SampleHashBuffers : BlockEvent(hashBuffer)
    \/ \E txBuffer \in SampleTxBuffers : TransactionEvent(txBuffer)

SpecSubscriptions == Init /\ [][SubscriptionsNext]_vars

\* The emitter was subscribed and has not been unsubscribed since.
Subscribed(emitter) == invCalls.latest[emitter] = "subscribe"

\* How many of the emit calls are made on the emitter.
TimesEmitted(emits, emitter) ==
    Cardinality({ i \in 1..Len(emits) : emits[i].emitter = emitter })

ReachesTheSubscribed(emits) ==
    \A emitter \in Emitters :
        TimesEmitted(emits, emitter) = IF Subscribed(emitter) THEN 1 ELSE 0

\* C34: after any subscribe and unsubscribe calls subscriptions.inv holds no
\* emitter twice, and a block or tx event arriving now is emitted exactly
\* once, with the event's data, to each emitter subscribed and not since
\* unsubscribed, and to no other.
C34_EachSubscribedEmitterOnce ==
    /\ \A i, j \in 1..Len(inv) : inv[i] = inv[j] => i = j
    /\ \A hashBuffer \in SampleHashBuffers :
          LET emits == blockEventHandler(inv, hashBuffer)
          IN /\ ReachesTheSubscribed(emits)
             /\ \A i \in 1..Len(emits) :
                   emits[i].event = "block" /\ emits[i].data = ToHex(hashBuffer)
    /\ \A txBuffer \in SampleTxBuffers :
          LET emits == transactionEventHandler(inv, txBuffer)
          IN /\ ReachesTheSubscribed(emits)
             /\ \A i, j \in 1..Len(emits) :
                   emits[i].event = "tx" /\ emits[i].data = emits[j].data
    /\ emitted # << >> =>
          \A emitter \in Emitters : TimesEmitted(emitted, emitter) <= 1

\* emitter1 has been unsubscribed and the other two are subscribed: the tx
\* event went to emitter2 and emitter3, once each.
C34_Witness ==
    /\ inv = <<"emitter2", "emitter3">>
    /\ invCalls.latest["emitter1"] = "unsubscribe"
    /\ Len(emitted) = 2
    /\ emitted[1].event = "tx"
    /\ emitted[1] = Emit("emitter2", "tx",
                         transformInvTransaction(InvTransaction("tx2", <<2>>,
                             <<InvOutput(1, Some(Some(iAAA)))>>)))
    /\ emitted[2].emitter = "emitter3"
    /\ emitted[2].data.isRBF


\* ------------------------------------------------------ GET /txs?block=

\* transactions.js line 621.
pageLength == 10

\* parseInt of a query parameter: an optional sign and the leading decimal
\* digits, NaN when there is none or the parameter is missing.
ParseInt(str) ==
    IF str = Undefined THEN [nan |-> TRUE, value |-> 0]
    ELSE LET negative == Len(str) > 0 /\ str[1] = "-"
             body == IF negative THEN Tail(str) ELSE str
             n == IF \E i \in 1..Len(body) : ~IsDigit(body[i])
                  THEN (CHOOSE i \in 1..Len(body) :
                           /\ ~IsDigit(body[i])
                           /\ \A j \in 1..(i - 1) : IsDigit(body[j])) - 1
                  ELSE Len(body)
         IN IF n = 0 THEN [nan |-> TRUE, value |-> 0]
            ELSE [nan |-> FALSE,
                  value |-> IF negative THEN 0 - ParseDigits(SubSeq(body, 1, n))
                            ELSE ParseDigits(SubSeq(body, 1, n))]

\* transactions.js line 620: parseInt(req.query.pageNum) || 0.
PageNumber(pageNum) ==
    IF ParseInt(pageNum).nan THEN 0 ELSE ParseInt(pageNum).value

\* Array.prototype.slice(start, end).
Slice(list, start, end) ==
    LET n == Len(list)
        from == IF start < 0 THEN (IF n + start > 0 THEN n + start ELSE 0)
                ELSE IF start < n THEN start ELSE n
        to == IF end < 0 THEN (IF n + end > 0 THEN n + end ELSE 0)
              ELSE IF end < n THEN end ELSE n
    IN IF from < to THEN SubSeq(list, from + 1, to) ELSE << >>

\* transactions.js line 637: Math.ceil(totalTxs / pageLength).
PagesTotal(totalTxs) == (totalTxs + pageLength - 1) \div pageLength

\* transactions.js lines 615-624: a request with a block hash arrives and
\* list asks the node for the block's overview.
List(blockHash, pageNum, limit) ==
    /\ Truthy(blockHash)
    /\ listing.pc \in {"idle", "answered"}
    /\ nTransforms < limit
    /\ listing' = [NoListing EXCEPT !.pc = "overview", !.page = PageNumber(pageNum)]
    /\ UNCHANGED <<coreVars, addressVars, subscriptionVars, currencyVars>>

\* transactions.js lines 624-660: getBlockOverview responds. On an error
\* the request is answered through handleErrors (with null for code -5);
\* otherwise the page is cut out and mapSeries starts on it: the first
\* txid is fetched, or an empty page is answered at once.
GetBlockOverviewResponse(err, code, txids) ==
    /\ listing.pc = "overview"
    /\ listing' =
          IF err
          THEN [listing EXCEPT
                  !.pc = "answered", !.answer = "handleErrors",
                  !.err = IF code = -5 THEN NoError
                          ELSE [from |-> "getBlockOverview", code |-> code]]
          ELSE LET start == listing.page * pageLength
                   page == Slice(txids, start, start + pageLength)
                   l == [listing EXCEPT !.block = txids, !.txids = page,
                                        !.pagesTotal = PagesTotal(Len(txids))]
               IN IF page = << >>
                  THEN [l EXCEPT !.pc = "answered", !.answer = "list"]
                  ELSE [l EXCEPT !.pc = "fetching", !.fetched = <<page[1]>>]
    /\ UNCHANGED <<coreVars, addressVars, subscriptionVars, currencyVars>>

\* transactions.js lines 642-647: getDetailedTransaction responds for the
\* txid in turn. An error goes to next; otherwise the transaction is
\* transformed on the controller, and a transform with nothing to wait for
\* calls next in the same turn.
ListTransactionResponse(response, height) ==
    /\ listing.pc = "fetching"
    /\ IF Has(response.err)
       THEN /\ listing' = mapSeriesNext(listing,
                              [from |-> "getDetailedTransaction",
                               code |-> Val(response.err).code],
                              IdleTransform.transformed)
            /\ UNCHANGED transformVars
       ELSE /\ nTransforms' = nTransforms + 1
            /\ LET x == StartTransform(1, response.transaction, NoOptions, height,
                                       identityNameCache[1])
               IN xf' = [xf EXCEPT ![1] = IF Wave1Complete(x)
                                          THEN AfterWave1(x, identityNameCache[1])
                                          ELSE x]
            /\ listing' = TransformCalledBack([listing EXCEPT !.pc = "transforming"],
                                              1, xf'[1])
    /\ UNCHANGED <<identityNameCache, resolverVars, handlerVars, addressVars,
                   subscriptionVars, currencyVars>>

\* The blocks of the node: their txids in block order.
Txid(n) == "t" \o DigitChar(n \div 10) \o DigitChar(n % 10)

SampleBlocks == { [i \in 1..n |-> Txid(i)] : n \in {0, 3, 10, 11} }

\* The transaction of each txid: the second and the eleventh of a block
\* carry a cross-chain import, whose names are looked up, and the third
\* pays to the fee pool, whose script is decoded.
ListedTransaction(txid) ==
    RawTransaction(txid, txid = Txid(1), <<SampleInput>>,
                   IF txid \in {Txid(2), Txid(11)} THEN <<ImportOutput>>
                   ELSE IF txid = Txid(3) THEN <<FeePoolOutput>>
                   ELSE <<PlainOutput>>,
                   100)

SamplePageNums ==
    { Undefined, <<"0">>, <<"1">>, <<"2">>, <<"-", "1">>, <<"1", "x">>, <<"x">> }

ListErrors == { [code |-> -5], [code |-> -1] }

ListNext ==
    \/ \E pageNum \in SamplePageNums : List(<<"b", "1">>, pageNum, MaxTransforms)
    \/ \E err \in BOOLEAN, code \in {-5, -1}, txids \in SampleBlocks :
          GetBlockOverviewResponse(err, code, txids)
    \/ \E e \in ListErrors :
          ListTransactionResponse(DetailedTransactionResponse(Some(e), NoTransaction),
                                  ChainHeight)
    \/ ListTransactionResponse(
          DetailedTransactionResponse(None,
              ListedTransaction(listing.fetched[Len(listing.fetched)])),
          ChainHeight)
    \/ \E j \in 1..MaxOutputs, r \in SampleDecodes : DecodeScriptResponse(1, j, r)
    \/ \E i \in 1..Cardinality(Addresses), r \in EnrichResponses :
          NamesResolvedResponse(1, i, r)
    \/ \E i \in 1..Cardinality(Addresses), r \in EnrichResponses :
          NewResultsResponse(1, i, r)

SpecList == Init /\ [][ListNext]_vars


\* The txids of the block that fall on the page, for a page number >= 0.
OnPage(l) ==
    /\ \A i \in 1..Len(l.txids) : l.txids[i] = l.block[l.page * pageLength + i]
    /\ Len(l.txids) <= pageLength
    /\ \/ Len(l.txids) = pageLength
       \/ l.page * pageLength + Len(l.txids) >= Len(l.block)

\* C35: listing by block hash fetches the page's txids one at a time in
\* block order, the next only when the transform of the previous one has
\* called back; it answers with the transformed transactions in that order
\* and pagesTotal = ceil(total / 10); the first getDetailedTransaction error
\* ends the fetching and is reported in place of a list.
C35_BlockListedInSeries ==
    /\ listing.fetched = SubSeq(listing.txids, 1, Len(listing.fetched))
    /\ Len(listing.transformed) <= Len(listing.fetched)
    /\ Len(listing.fetched) <= Len(listing.transformed) + 1
    /\ \A i \in 1..Len(listing.transformed) :
          listing.transformed[i].txid = listing.txids[i]
    /\ listing.pc = "fetching" =>
          /\ Len(listing.fetched) = Len(listing.transformed) + 1
          /\ Len(listing.transformed) > 0 =>
                /\ xf[1].pc = "done"
                /\ xf[1].transformed = listing.transformed[Len(listing.transformed)]
    /\ listing.pc = "transforming" =>
          /\ Len(listing.fetched) = Len(listing.transformed) + 1
          /\ Waiting(1)
          /\ xf[1].raw.hash = listing.fetched[Len(listing.fetched)]
    /\ listing.answer = "list" =>
          /\ listing.pc = "answered"
          /\ Len(listing.transformed) = Len(listing.txids)
          /\ Len(listing.fetched) = Len(listing.txids)
          /\ listing.page >= 0 => OnPage(listing)
          /\ listing.pagesTotal * 10 >= Len(listing.block)
          /\ (listing.pagesTotal - 1) * 10 < Len(listing.block)
    /\ (listing.answer = "handleErrors" /\ listing.err.from = "getDetailedTransaction") =>
          /\ listing.pc = "answered"
          /\ Len(listing.fetched) = Len(listing.transformed) + 1
    /\ listing.err.from # "transformTransaction"

\* The first page of a block of eleven transactions has been listed: ten
\* transactions in block order, the second after its names were looked up,
\* and two pages in all.
C35_Witness ==
    /\ listing.answer = "list"
    /\ Len(listing.block) = 11
    /\ listing.page = 0
    /\ listing.pagesTotal = 2
    /\ Len(listing.transformed) = 10
    /\ listing.transformed[10].txid = "t10"
    /\ Val(Val(listing.transformed[2].vout[1].crosschainimport).valueinFriendly) # << >>


\* --------------------------------------------------- GetCurrencyController

\* part_000 line 11: 24 hours in milliseconds.
CACHE_DURATION == 24 * 60 * 60 * 1000

UpperCase ==
    <<"A", "B", "C", "D", "E", "F", "G", "H", "I", "J", "K", "L", "M",
      "N", "O", "P", "Q", "R", "S", "T", "U", "V", "W", "X", "Y", "Z">>

LowerCase ==
    <<"a", "b", "c", "d", "e", "f", "g", "h", "i", "j", "k", "l", "m",
      "n", "o", "p", "q", "r", "s", "t", "u", "v", "w", "x", "y", "z">>

\* String.prototype.toLowerCase.
toLowerCase(str) ==
    [i \in 1..Len(str) |->
        IF \E n \in 1..26 : UpperCase[n] = str[i]
        THEN LowerCase[CHOOSE n \in 1..26 : UpperCase[n] = str[i]]
        ELSE str[i]]

\* part_000 line 27: the key a currency is cached under.
CacheKeyAsGiven(currency) == currency

CacheKey(currency) == toLowerCase(currency)

\* part_000 line 31: the cache holds an entry for the key that has not
\* expired at the time now.
CacheValid(cache, cacheKey, now) ==
    /\ HasKey(cache, cacheKey)
    /\ now - Get(cache, cacheKey).timestamp < CACHE_DURATION

\* part_000 lines 14-38: a request for a currency arrives. Without a name
\* it is refused; a valid cache entry answers it; otherwise getCurrency is
\* called (k is the place of the call among those awaiting the node).
Show(k, currency) ==
    /\ fetches[k] = None
    /\ IF ~Truthy(currency)
       THEN /\ currencyAnswer' = [kind |-> "handleErrors", currency |-> currency,
                                  data |-> "Currency name is required"]
            /\ UNCHANGED fetches
       ELSE IF CacheValid(currencyCache, CacheKey(currency), clock)
       THEN /\ currencyAnswer' = [kind |-> "cached", currency |-> currency,
                                  data |-> Get(currencyCache, CacheKey(currency)).data]
            /\ UNCHANGED fetches
       ELSE /\ fetches' = [fetches EXCEPT ![k] =
                              Some([currency |-> currency,
                                    cacheKey |-> CacheKey(currency), now |-> clock])]
            /\ UNCHANGED currencyAnswer
    /\ UNCHANGED <<currencyCache, clock, coreVars, addressVars, subscriptionVars, listVars>>

\* part_000 lines 38-50: getCurrency responds to the k-th call. An error
\* goes to handleErrors; a result is stored under the call's key with the
\* time of the request and sent.
GetCurrencyResponse(k, err, result) ==
    /\ fetches[k] # None
    /\ LET call == Val(fetches[k])
       IN IF err
          THEN /\ currencyAnswer' = [kind |-> "handleErrors", currency |-> call.currency,
                                     data |-> "getCurrency"]
               /\ UNCHANGED currencyCache
          ELSE /\ currencyCache' = Put(currencyCache, call.cacheKey,
                                       [data |-> result, timestamp |-> call.now])
               /\ currencyAnswer' = [kind |-> "fetched", currency |-> call.currency,
                                     data |-> result]
    /\ fetches' = [fetches EXCEPT ![k] = None]
    /\ UNCHANGED <<clock, coreVars, addressVars, subscriptionVars, listVars>>

\* Date.now() moves on.
ClockAdvances(now) ==
    /\ now > clock
    /\ clock' = now
    /\ UNCHANGED <<currencyCache, fetches, currencyAnswer, coreVars, addressVars,
                   subscriptionVars, listVars>>

\* The names requests give: one currency in two spellings, and another.
SampleCurrencies ==
    { <<"V", "R", "S", "C">>, <<"v", "r", "s", "c">>, <<"v", "E", "T", "H">> }

\* The readings of the clock: a start, the last millisecond within 24 hours
\* of it, and 24 hours after it.
Instants == {0, CACHE_DURATION - 1, CACHE_DURATION}

SampleCurrencyData == {"data1", "data2"}

CurrencyNext ==
    \/ \E k \in Callers, currency \in SampleCurrencies \cup {EmptyString} : Show(k, currency)
    \/ \E k \in Callers, err \in BOOLEAN, result \in SampleCurrencyData :
          GetCurrencyResponse(k, err, result)
    \/ \E now \in Instants : ClockAdvances(now)

SpecCurrency == Init /\ [][CurrencyNext]_vars


\* An entry exists for the lower-cased name and its age is under 24 hours.
FreshEntry(currency) ==
    \E i \in 1..Len(currencyCache) :
        /\ currencyCache[i][1] = toLowerCase(currency)
        /\ clock - currencyCache[i][2].timestamp < 86400000

\* The getCurrency calls awaiting the node.
CallsAwaited == { k \in Callers : fetches[k] # None }

\* C36: show answers a named currency from currencyCache, calling
\* getCurrency not at all, exactly when the cache holds an entry for the
\* lower-cased name that is less than 24 hours old, and calls getCurrency
\* otherwise; a getCurrency error leaves the cache as it was, and a result
\* is stored under the lower-cased name, every other entry staying.
C36_CacheAnswersWhileFresh ==
    [][/\ \A k \in Callers, currency \in SampleCurrencies :
             Show(k, currency) =>
                IF FreshEntry(currency)
                THEN /\ fetches' = fetches
                     /\ currencyCache' = currencyCache
                     /\ currencyAnswer'.kind = "cached"
                     /\ currencyAnswer'.data = Get(currencyCache, toLowerCase(currency)).data
                ELSE /\ CallsAwaited' = CallsAwaited \cup {k}
                     /\ Val(fetches'[k]).currency = currency
                     /\ currencyCache' = currencyCache
                     /\ currencyAnswer' = currencyAnswer
       /\ \A k \in Callers, result \in SampleCurrencyData :
             /\ GetCurrencyResponse(k, TRUE, result) => currencyCache' = currencyCache
             /\ GetCurrencyResponse(k, FALSE, result) =>
                   LET key == toLowerCase(Val(fetches[k]).currency)
                   IN /\ HasKey(currencyCache', key)
                      /\ Get(currencyCache', key).data = result
                      /\ Keys(currencyCache') =
                            IF HasKey(currencyCache, key) THEN Keys(currencyCache)
                            ELSE Append(Keys(currencyCache), key)
                      /\ \A i \in 1..Len(currencyCache) :
                            currencyCache[i][1] # key => currencyCache'[i] = currencyCache[i]
       /\ currencyCache' # currencyCache =>
             \E k \in Callers, result \in SampleCurrencyData :
                 GetCurrencyResponse(k, FALSE, result)]_vars

\* The one entry, stored under vrsc at time 0, has answered a request for
\* VRSC made a millisecond short of 24 hours later; no call awaits the node.
C36_Witness ==
    /\ Keys(currencyCache) = << <<"v", "r", "s", "c">> >>
    /\ Get(currencyCache, <<"v", "r", "s", "c">>) = [data |-> "data1", timestamp |-> 0]
    /\ clock = CACHE_DURATION - 1
    /\ currencyAnswer = [kind |-> "cached", currency |-> <<"V", "R", "S", "C">>, data |-> "data1"]
    /\ CallsAwaited = {}

=============================================================================
